---------------------------- MODULE Spec2Model ----------------------------
(***************************************************************************)
(* Model of the container execution and progress-tracking subsystem of     *)
(* claude-dev-container: ContainerService (app/services/containers.py) and *)
(* the request handlers of app/main.py that drive it.                      *)
(*                                                                         *)
(* Spec        : ContainerService used by one client thread that calls     *)
(*               exec_claude, a second thread that polls get_progress, and *)
(*               the background worker thread of every execution.          *)
(* SpecOverlap : two client threads calling exec_claude for one project at *)
(*               the same time, the poller and the workers.                *)
(* SpecHTTP    : the same service driven by the FastAPI handlers, which    *)
(*               are coroutines of one event loop.                         *)
(* SpecLifecycle  : one client thread calling ensure_container, statement  *)
(*               by statement, stop_container, remove_container,           *)
(*               get_container_id, exec_command and exec_claude while      *)
(*               containers stop or disappear outside the service.         *)
(* SpecEnsureRace : two client threads inside ensure_container.            *)
(* SpecText    : get_progress over the texts a buffer may hold.            *)
(* The specifications of single routes and scenarios (SpecCommand,         *)
(* SpecStream, SpecApi, SpecAttach, SpecPush, SpecProjects, SpecScanner,   *)
(* SpecMounts, SpecCompletion, SpecFrame, SpecIsolation) are described     *)
(* where they are defined.                                                 *)
(***************************************************************************)
EXTENDS Integers, Sequences, FiniteSets, TLC

\* ------------------------------------------------------------------ bounds
MaxRuns == 2
MaxOutput == 2
MaxContainers == 2
MaxRequests == 2
MaxText == 12
MaxTitle == 2
MaxPrOutput == 5
MaxSegments == 4

\* --------------------------------------------------------------- constants
Projects == {"p1", "p2"}
\* client threads that call exec_claude; the event loop runs handlers as "t1"
Callers == {"t1", "t2"}
LoopThread == "t1"
\* the project the client threads of Spec and SpecOverlap run executions for
RunProject == "p1"
Runs == 1 .. MaxRuns
Cids == 1 .. MaxContainers

\* absence of a dictionary entry / of a value
None == 0
\* result = {"exit_code": None}
NoExit == -1

\* Text is a sequence of characters.  "B:" stands for the literal "BLOCKED:",
\* "E" for the text "\nError: {e}\n" the worker writes on an exception.
BlockedMarker == <<"B", ":">>
ErrorText == <<"E">>
\* the chunks the in-container process may emit (b"" included)
Chunks == {<< >>, <<"B">>, <<":">>}
\* exit codes the container runtime may report for the process
ExitCodes == {0, 1, 2, 130}

VARIABLES
    containers,   \* self._containers: project -> container id (None: absent)
    dockerStatus, \* external runtime: container id -> status
    dockerName,   \* external runtime: container id -> project of its name
    nextCid,      \* next container id the runtime hands out
    executions,   \* self._executions: project -> run whose record is registered
    nextRun,      \* next fresh temporary file / execution
    runProj,      \* run -> project id captured by the run
    wpc,          \* run -> position of the worker thread run_claude
    done,         \* run -> done_event.is_set()
    exitCode,     \* run -> result["exit_code"]
    fileExists,   \* run -> the temporary file is linked in the file system
    fileClosed,   \* run -> output_file.close() was called
    content,      \* run -> text written (and flushed) to the temporary file
    emitted,      \* run -> concatenation of the chunks the process emitted (history)
    raisedAt,     \* run -> where the worker raised (history)
    pc,           \* caller -> position in exec_claude
    proj,         \* caller -> project_id argument
    run,          \* caller -> run of the current call
    ret,          \* caller -> outcome of the last finished call
    ppc,          \* poller: position in get_progress
    pproj,        \* poller: project_id argument
    prec,         \* poller: exec_info (the run whose record it looked up)
    pout,         \* poller: output read from the file
    pres,         \* poller: outcome of the last finished get_progress
    lpc,          \* caller -> position in a container lifecycle method
    lcon,         \* caller -> local variable container of that method
    lret,         \* caller -> the lifecycle call in progress / last finished
    loop,         \* event loop: "idle" or the kind of handler it is running
    current,      \* event loop: the request of the running handler
    pending,      \* event loop: requests accepted and not yet dispatched
    response      \* event loop: the last response sent

svcVars ==
    <<containers, dockerStatus, dockerName, nextCid, executions, nextRun, runProj>>
runVars == <<wpc, done, exitCode, fileExists, fileClosed, content, emitted, raisedAt>>
callVars == <<pc, proj, run, ret>>
pollVars == <<ppc, pproj, prec, pout, pres>>
httpVars == <<loop, current, pending, response>>
lifeVars == <<lpc, lcon, lret>>
vars == <<svcVars, runVars, callVars, pollVars, httpVars, lifeVars>>

\* ---------------------------------------------------------- text functions
\* Bytes the container runtime hands over are sequences of byte names: an
\* ASCII byte is named by its character, "C3" "A9" are the two bytes of the
\* UTF-8 encoding of the character "U" (which stands for "\u00e9"), and "?"
\* is the replacement character U+FFFD.
\* bytes.decode("utf-8", errors="replace"): ASCII bytes decode to themselves
RECURSIVE Decode(_)
Decode(bytes) ==
    IF \A i \in DOMAIN bytes : bytes[i] \notin {"C3", "A9"} THEN bytes
    ELSE IF Head(bytes) = "C3"
    THEN IF Len(bytes) >= 2 /\ bytes[2] = "A9"
         THEN <<"U">> \o Decode(SubSeq(bytes, 3, Len(bytes)))
         ELSE <<"?">> \o Decode(Tail(bytes))
    ELSE IF Head(bytes) = "A9" THEN <<"?">> \o Decode(Tail(bytes))
    ELSE <<Head(bytes)>> \o Decode(Tail(bytes))

\* open(name).read() in text mode: "\r\n" and "\r" are read as "\n"
RECURSIVE ReadText(_)
ReadText(text) ==
    IF \A i \in DOMAIN text : text[i] # "\r" THEN text
    ELSE IF Head(text) = "\r"
    THEN IF Len(text) >= 2 /\ text[2] = "\n"
         THEN <<"\n">> \o ReadText(SubSeq(text, 3, Len(text)))
         ELSE <<"\n">> \o ReadText(Tail(text))
    ELSE <<Head(text)>> \o ReadText(Tail(text))

IsPrefix(s, t) == Len(s) <= Len(t) /\ SubSeq(t, 1, Len(s)) = s

\* Python: needle in text
Contains(text, needle) ==
    \E i \in 0 .. (Len(text) - Len(needle)) :
        SubSeq(text, i + 1, i + Len(needle)) = needle

\* ExecutionState of _determine_state looking for the marker on any failure
DetermineStateAnyCode(exit_code, output) ==
    IF exit_code = 0 THEN "completed"
    ELSE IF Contains(output, BlockedMarker) THEN "blocked"
    ELSE IF exit_code = 130 THEN "cancelled"
    ELSE "failed"

\* ContainerService._determine_state
DetermineState(exit_code, output) ==
    IF exit_code = 0 THEN "completed"
    ELSE IF exit_code = 1 /\ Contains(output, BlockedMarker) THEN "blocked"
    ELSE IF exit_code = 130 THEN "cancelled"
    ELSE "failed"


\* ---------------------------------------------------------- get_progress text
\* lines[-10:]
RecentLines == 10
Whitespace == {"\n", " ", "\r", "\t"}

RECURSIVE LStrip(_)
LStrip(s) == IF s # << >> /\ Head(s) \in Whitespace THEN LStrip(Tail(s)) ELSE s

RECURSIVE RStrip(_)
RStrip(s) ==
    IF s # << >> /\ s[Len(s)] \in Whitespace
    THEN RStrip(SubSeq(s, 1, Len(s) - 1)) ELSE s

\* str.strip()
Strip(s) == RStrip(LStrip(s))

\* str.split("\n"): never empty, "" splits to [""]
RECURSIVE SplitLines(_)
SplitLines(s) ==
    IF \A i \in 1 .. Len(s) : s[i] # "\n" THEN << s >>
    ELSE LET k == CHOOSE i \in 1 .. Len(s) :
                      s[i] = "\n" /\ \A j \in 1 .. (i - 1) : s[j] # "\n"
         IN  << SubSeq(s, 1, k - 1) >> \o SplitLines(SubSeq(s, k + 1, Len(s)))

\* "\n".join(lines)
RECURSIVE JoinLines(_)
JoinLines(lines) ==
    IF lines = << >> THEN << >>
    ELSE IF Len(lines) = 1 THEN lines[1]
    ELSE lines[1] \o <<"\n">> \o JoinLines(Tail(lines))

\* recent = "\n".join(lines[-10:]) if len(lines) > 10 else output
Recent(output) ==
    LET lines == SplitLines(Strip(output))
    IN  IF Len(lines) > RecentLines
        THEN JoinLines(SubSeq(lines, Len(lines) - RecentLines + 1, Len(lines)))
        ELSE output

\* the idle ProgressInfo with a size left over from an earlier execution
NoExecutionStaleSize ==
    [running |-> FALSE, output |-> << >>, recent |-> << >>, bytes |-> 1]

\* ProgressInfo(running=False, output="", recent="", bytes=0)
NoExecution == [running |-> FALSE, output |-> << >>, recent |-> << >>, bytes |-> 0]

\* open(exec_info["output_file"]).read(), "" when the file cannot be opened
ReadOutputFile(r) == IF fileExists[r] THEN ReadText(content[r]) ELSE << >>

\* ProgressInfo of a record that reports every registered record as running
ProgressOfAlwaysRunning(r, output) ==
    [running |-> TRUE, output |-> output,
     recent |-> Recent(output), bytes |-> Len(output)]

\* ProgressInfo(running=not exec_info["done"].is_set(), output, recent, bytes)
ProgressOf(r, output) ==
    [running |-> ~done[r], output |-> output,
     recent |-> Recent(output), bytes |-> Len(output)]

\* get_progress evaluated without interruption in the current state
GetProgress(p) ==
    IF executions[p] = None THEN NoExecution
    ELSE ProgressOf(executions[p], ReadOutputFile(executions[p]))

\* ------------------------------------------------------ push_and_create_pr text
\* a command line is a sequence of characters; a word of the fixed part of a
\* command ("git", "--fill") counts as one character of the class [\w-]
SafeChars == {"a", "/", "git", "push", "-u", "origin", "rev-parse",
              "--abbrev-ref", "HEAD", "gh", "pr", "create", "--title", "--fill"}

\* s.replace("'", "'\"'\"'")
RECURSIVE EscapeSingleQuotes(_)
EscapeSingleQuotes(s) ==
    IF s = << >> THEN << >>
    ELSE (IF Head(s) = "'" THEN <<"'", "\"", "'", "\"", "'">> ELSE <<Head(s)>>)
            \o EscapeSingleQuotes(Tail(s))

\* the string wrapped in double quotes
QuoteDouble(s) == <<"\"">> \o s \o <<"\"">>

\* shlex.quote(s): '' for the empty string, s itself when every character is
\* in [\w@%+=:,./-], otherwise s in single quotes with each ' as '"'"'
Quote(s) ==
    IF s = << >> THEN <<"'", "'">>
    ELSE IF \A i \in DOMAIN s : s[i] \in SafeChars THEN s
    ELSE <<"'">> \o EscapeSingleQuotes(s) \o <<"'">>

\* the command lines of push_and_create_pr (main.py 225, 236, 248-252)
BranchCmd == <<"git", " ", "rev-parse", " ", "--abbrev-ref", " ", "HEAD">>
PushCmd(branch) == <<"git", " ", "push", " ", "-u", " ", "origin", " ">> \o Quote(branch)
PrCmd(title) ==
    IF title # << >>
    THEN <<"gh", " ", "pr", " ", "create", " ", "--title", " ">>
            \o Quote(title) \o <<" ", "--fill">>
    ELSE <<"gh", " ", "pr", " ", "create", " ", "--fill">>

\* bash -c command (containers.py 317-320) splitting the command line: the
\* commands of the line, each the sequence of its words, and whether every
\* quote was closed.  Outside quotes a blank ends a word, ";" and newline end
\* a command, "#" at the start of a word starts a comment and a backslash
\* keeps the next character; between single quotes every character is kept;
\* between double quotes a backslash keeps a following " or backslash
RECURSIVE ShellLexFrom(_, _, _, _, _, _, _)
ShellLexFrom(cmd, i, mode, word, inword, words, cmds) ==
    LET endWord == IF inword THEN Append(words, word) ELSE words
        endCmd == IF endWord # << >> THEN Append(cmds, endWord) ELSE cmds
    IN  IF i > Len(cmd)
        THEN [cmds |-> endCmd, closed |-> mode \in {"plain", "comment"}]
        ELSE LET c == cmd[i]
             IN  CASE mode = "single" ->
                        IF c = "'"
                        THEN ShellLexFrom(cmd, i + 1, "plain", word, TRUE, words, cmds)
                        ELSE ShellLexFrom(cmd, i + 1, "single", Append(word, c), TRUE,
                                          words, cmds)
                   [] mode = "double" ->
                        IF c = "\""
                        THEN ShellLexFrom(cmd, i + 1, "plain", word, TRUE, words, cmds)
                        ELSE IF c = "\\" /\ i < Len(cmd) /\ cmd[i + 1] \in {"\"", "\\"}
                        THEN ShellLexFrom(cmd, i + 2, "double", Append(word, cmd[i + 1]),
                                          TRUE, words, cmds)
                        ELSE ShellLexFrom(cmd, i + 1, "double", Append(word, c), TRUE,
                                          words, cmds)
                   [] mode = "comment" ->
                        IF c = "\n"
                        THEN ShellLexFrom(cmd, i + 1, "plain", << >>, FALSE, << >>, endCmd)
                        ELSE ShellLexFrom(cmd, i + 1, "comment", word, inword, words, cmds)
                   [] OTHER ->
                        IF c \in {" ", "\t"}
                        THEN ShellLexFrom(cmd, i + 1, "plain", << >>, FALSE, endWord, cmds)
                        ELSE IF c \in {";", "\n"}
                        THEN ShellLexFrom(cmd, i + 1, "plain", << >>, FALSE, << >>, endCmd)
                        ELSE IF c = "#" /\ ~inword
                        THEN ShellLexFrom(cmd, i + 1, "comment", word, inword, words, cmds)
                        ELSE IF c = "'"
                        THEN ShellLexFrom(cmd, i + 1, "single", word, TRUE, words, cmds)
                        ELSE IF c = "\""
                        THEN ShellLexFrom(cmd, i + 1, "double", word, TRUE, words, cmds)
                        ELSE IF c = "\\" /\ i < Len(cmd)
                        THEN ShellLexFrom(cmd, i + 2, "plain", Append(word, cmd[i + 1]),
                                          TRUE, words, cmds)
                        ELSE ShellLexFrom(cmd, i + 1, "plain", Append(word, c), TRUE,
                                          words, cmds)

ShellLex(cmd) == ShellLexFrom(cmd, 1, "plain", << >>, FALSE, << >>, << >>)

\* "github.com" in line or "/pull/" in line
IsPrLineEither(line) ==
    \/ \E i \in DOMAIN line : line[i] = "g"
    \/ \E i \in DOMAIN line : line[i] = "p"

\* "github.com" in line and "/pull/" in line; "g" stands for the text
\* github.com and "p" for the text /pull/
IsPrLine(line) ==
    /\ \E i \in DOMAIN line : line[i] = "g"
    /\ \E i \in DOMAIN line : line[i] = "p"

\* the last line with both texts instead of the first
RECURSIVE LastPrLine(_)
LastPrLine(lines) ==
    IF lines = << >> THEN << >>
    ELSE IF IsPrLine(lines[Len(lines)]) THEN Strip(lines[Len(lines)])
    ELSE LastPrLine(SubSeq(lines, 1, Len(lines) - 1))

\* main.py 263-267: for line in lines: if ...: pr_url = line.strip(); break
RECURSIVE FirstPrLine(_)
FirstPrLine(lines) ==
    IF lines = << >> THEN << >>
    ELSE IF IsPrLine(Head(lines)) THEN Strip(Head(lines))
    ELSE FirstPrLine(Tail(lines))

\* main.py 262-267: pr_url from pr_result.output
PrUrl(output) == FirstPrLine(SplitLines(Strip(output)))

\* -------------------------------------------------------------------- Init
NoResult == [kind |-> "none"]

\* a call of a lifecycle method: its outcome (id / flag / error by kind) and
\* the operations it invoked on the container runtime
LifeCall(op, p) ==
    [op |-> op, project |-> p, kind |-> "pending",
     id |-> None, flag |-> FALSE, error |-> "",
     exit_code |-> NoExit, output |-> << >>,
     host |-> {}, volumes |-> {},
     reloads |-> 0, creates |-> 0, stops |-> 0, removes |-> 0]
NoCall == [LifeCall("none", "-") EXCEPT !.kind = "none"]

Init ==
    /\ containers = [p \in Projects |-> None]
    /\ dockerStatus = [c \in Cids |-> "none"]
    /\ dockerName = [c \in Cids |-> "-"]
    /\ nextCid = 1
    /\ executions = [p \in Projects |-> None]
    /\ nextRun = 1
    /\ runProj = [r \in Runs |-> "-"]
    /\ wpc = [r \in Runs |-> "unborn"]
    /\ done = [r \in Runs |-> FALSE]
    /\ exitCode = [r \in Runs |-> NoExit]
    /\ fileExists = [r \in Runs |-> FALSE]
    /\ fileClosed = [r \in Runs |-> FALSE]
    /\ content = [r \in Runs |-> << >>]
    /\ emitted = [r \in Runs |-> << >>]
    /\ raisedAt = [r \in Runs |-> "nowhere"]
    /\ pc = [t \in Callers |-> "idle"]
    /\ proj = [t \in Callers |-> "-"]
    /\ run = [t \in Callers |-> None]
    /\ ret = [t \in Callers |-> NoResult]
    /\ ppc = "idle"
    /\ pproj = "-"
    /\ prec = None
    /\ pout = << >>
    /\ pres = NoResult
    /\ loop = "idle"
    /\ current = NoResult
    /\ pending = {}
    /\ response = NoResult
    /\ lpc = [t \in Callers |-> "idle"]
    /\ lcon = [t \in Callers |-> None]
    /\ lret = [t \in Callers |-> NoCall]

\* ------------------------------------------------- ContainerService lifecycle
\* a container that exists in the runtime holds the name claude-dev-{p}
NameInUse(p) ==
    \E c \in Cids : dockerName[c] = p /\ dockerStatus[c] \in {"running", "exited"}

\* _create_container asking the runtime for a container without a name: the
\* runtime starts one whatever containers exist
CreatesUnnamed(p, ok) == ok /\ nextCid <= MaxContainers

\* _create_container returns a container: client.containers.run(..., name=
\* f"claude-dev-{project_id}") succeeds; the runtime refuses a name in use
Creates(p, ok) == ok /\ nextCid <= MaxContainers /\ ~NameInUse(p)

\* lines 79-80: container = self._create_container(...); the cache is set
\* only when the runtime started a container (otherwise DockerException)
CreateContainer(p, ok) ==
    IF Creates(p, ok)
    THEN /\ dockerStatus' = [dockerStatus EXCEPT ![nextCid] = "running"]
         /\ dockerName' = [dockerName EXCEPT ![nextCid] = p]
         /\ containers' = [containers EXCEPT ![p] = nextCid]
         /\ nextCid' = nextCid + 1
    ELSE UNCHANGED <<containers, dockerStatus, dockerName, nextCid>>

\* lines 68-73: a cached container that reloads as running is returned as is
CachedRunning(p) ==
    containers[p] # None /\ dockerStatus[containers[p]] = "running"

\* lines 74-76: reload() raises NotFound for a container removed externally
CachedGone(p) ==
    containers[p] # None /\ dockerStatus[containers[p]] = "removed"

\* ensure_container raises DockerException (project_path is not empty)
EnsureRaises(p, ok) == ~CachedRunning(p) /\ ~Creates(p, ok)

\* ContainerService.ensure_container: what it does to the cache and the runtime
EnsureEffect(p, ok) ==
    IF CachedRunning(p) THEN UNCHANGED <<containers, dockerStatus, dockerName, nextCid>>
    ELSE IF CachedGone(p) /\ ~Creates(p, ok)
    THEN /\ containers' = [containers EXCEPT ![p] = None]
         /\ UNCHANGED <<dockerStatus, dockerName, nextCid>>
    ELSE CreateContainer(p, ok)

\* a client calls ensure_container(project_id, project_path)
EnsureContainer(p, ok) ==
    /\ EnsureEffect(p, ok)
    /\ UNCHANGED <<executions, nextRun, runProj>>
    /\ UNCHANGED <<runVars, callVars, pollVars, httpVars>>
    /\ UNCHANGED lifeVars

\* ------------------------------- ensure_container, one step per statement
\* caller t ends its lifecycle call with outcome r
LifeEnd(t, r) ==
    /\ lret' = [lret EXCEPT ![t] = r]
    /\ lpc' = [lpc EXCEPT ![t] = "idle"]

\* ensure_container looking up the cache without checking the path first
EnsureCallNoPathCheck(t, p, path) ==
    /\ lpc[t] = "idle"
    /\ pc[t] = "idle"
    /\ lret' = [lret EXCEPT ![t] = LifeCall("ensure", p)]
    /\ lcon' = [lcon EXCEPT ![t] = containers[p]]
    /\ lpc' = [lpc EXCEPT ![t] =
                  IF containers[p] # None THEN "reload" ELSE "create"]
    /\ UNCHANGED <<svcVars, runVars, callVars, pollVars, httpVars>>

\* lines 64-69: the path check, the cache lookup, container = the cached handle
EnsureCall(t, p, path) ==
    /\ lpc[t] = "idle"
    /\ pc[t] = "idle"
    /\ IF path = ""
       THEN /\ LifeEnd(t, [LifeCall("ensure", p) EXCEPT
                               !.kind = "raised", !.error = "ValueError"])
            /\ UNCHANGED lcon
       ELSE /\ lret' = [lret EXCEPT ![t] = LifeCall("ensure", p)]
            /\ lcon' = [lcon EXCEPT ![t] = containers[p]]
            /\ lpc' = [lpc EXCEPT ![t] =
                          IF containers[p] # None THEN "reload" ELSE "create"]
    /\ UNCHANGED <<svcVars, runVars, callVars, pollVars, httpVars>>

\* ensure_container replacing the cached container whatever its status
EnsureReloadRecreating(t) ==
    /\ lpc[t] = "reload"
    /\ lret' = [lret EXCEPT ![t].reloads = @ + 1]
    /\ lpc' = [lpc EXCEPT ![t] = "create"]
    /\ UNCHANGED <<lcon, svcVars, runVars, callVars, pollVars, httpVars>>

\* lines 70-76: container.reload(); a running container is returned; NotFound
\* deletes the cache entry (KeyError when the entry is gone by then)
EnsureReload(t) ==
    /\ lpc[t] = "reload"
    /\ LET p == lret[t].project
           call == [lret[t] EXCEPT !.reloads = @ + 1]
       IN  CASE dockerStatus[lcon[t]] = "running" ->
                  /\ LifeEnd(t, [call EXCEPT !.kind = "value", !.id = lcon[t]])
                  /\ UNCHANGED <<containers, lcon>>
             [] dockerStatus[lcon[t]] = "removed" /\ containers[p] = None ->
                  /\ LifeEnd(t, [call EXCEPT !.kind = "raised", !.error = "KeyError"])
                  /\ UNCHANGED <<containers, lcon>>
             [] dockerStatus[lcon[t]] = "removed" /\ containers[p] # None ->
                  /\ containers' = [containers EXCEPT ![p] = None]
                  /\ lret' = [lret EXCEPT ![t] = call]
                  /\ lpc' = [lpc EXCEPT ![t] = "create"]
                  /\ UNCHANGED lcon
             [] OTHER ->
                  /\ lret' = [lret EXCEPT ![t] = call]
                  /\ lpc' = [lpc EXCEPT ![t] = "create"]
                  /\ UNCHANGED <<containers, lcon>>
    /\ UNCHANGED <<dockerStatus, dockerName, nextCid, executions, nextRun, runProj>>
    /\ UNCHANGED <<runVars, callVars, pollVars, httpVars>>

\* line 79: container = self._create_container(...), DockerException when
\* the runtime does not start a container
EnsureCreate(t, ok) ==
    /\ lpc[t] = "create"
    /\ LET p == lret[t].project
       IN  IF Creates(p, ok)
           THEN /\ dockerStatus' = [dockerStatus EXCEPT ![nextCid] = "running"]
                /\ dockerName' = [dockerName EXCEPT ![nextCid] = p]
                /\ nextCid' = nextCid + 1
                /\ lcon' = [lcon EXCEPT ![t] = nextCid]
                /\ lret' = [lret EXCEPT ![t].creates = @ + 1]
                /\ lpc' = [lpc EXCEPT ![t] = "cache"]
           ELSE /\ LifeEnd(t, [lret[t] EXCEPT
                                   !.kind = "raised", !.error = "DockerException"])
                /\ UNCHANGED <<dockerStatus, dockerName, nextCid, lcon>>
    /\ UNCHANGED <<containers, executions, nextRun, runProj>>
    /\ UNCHANGED <<runVars, callVars, pollVars, httpVars>>

\* lines 80-81: self._containers[project_id] = container; return container.id
EnsureCache(t) ==
    /\ lpc[t] = "cache"
    /\ containers' = [containers EXCEPT ![lret[t].project] = lcon[t]]
    /\ LifeEnd(t, [lret[t] EXCEPT !.kind = "value", !.id = lcon[t]])
    /\ UNCHANGED lcon
    /\ UNCHANGED <<dockerStatus, dockerName, nextCid, executions, nextRun, runProj>>
    /\ UNCHANGED <<runVars, callVars, pollVars, httpVars>>

\* a thread inside ensure_container takes a step
Ensure(t) ==
    \/ EnsureReload(t)
    \/ \E ok \in BOOLEAN : EnsureCreate(t, ok)
    \/ EnsureCache(t)

\* ------------------------- stop_container, remove_container, exec_command
\* container.stop / container.remove / container.exec_run raise: the runtime
\* fails (ok is false) or no longer knows the container (NotFound)
RuntimeRaises(c, ok) == ~ok \/ dockerStatus[c] = "removed"

\* stop_container letting the DockerException of container.stop through
StopContainerRaising(t, p, ok) ==
    /\ lpc[t] = "idle"
    /\ pc[t] = "idle"
    /\ LET c == containers[p]
           call == LifeCall("stop", p)
       IN  IF c = None
           THEN /\ lret' = [lret EXCEPT ![t] = [call EXCEPT !.kind = "value"]]
                /\ UNCHANGED dockerStatus
           ELSE IF RuntimeRaises(c, ok)
           THEN /\ lret' = [lret EXCEPT ![t] =
                              [call EXCEPT !.kind = "raised", !.stops = 1,
                                           !.error = "DockerException"]]
                /\ UNCHANGED dockerStatus
           ELSE /\ lret' = [lret EXCEPT ![t] =
                              [call EXCEPT !.kind = "value", !.flag = TRUE,
                                           !.stops = 1]]
                /\ dockerStatus' = [dockerStatus EXCEPT ![c] = "exited"]
    /\ UNCHANGED <<containers, dockerName, nextCid, executions, nextRun, runProj>>
    /\ UNCHANGED <<lpc, lcon, runVars, callVars, pollVars, httpVars>>

\* ContainerService.stop_container: False without a cached handle, otherwise
\* container.stop(timeout=10) with DockerException turned into False
StopContainer(t, p, ok) ==
    /\ lpc[t] = "idle"
    /\ pc[t] = "idle"
    /\ LET c == containers[p]
           call == LifeCall("stop", p)
       IN  IF c = None
           THEN /\ lret' = [lret EXCEPT ![t] = [call EXCEPT !.kind = "value"]]
                /\ UNCHANGED dockerStatus
           ELSE IF RuntimeRaises(c, ok)
           THEN /\ lret' = [lret EXCEPT ![t] =
                              [call EXCEPT !.kind = "value", !.stops = 1]]
                /\ UNCHANGED dockerStatus
           ELSE /\ lret' = [lret EXCEPT ![t] =
                              [call EXCEPT !.kind = "value", !.flag = TRUE,
                                           !.stops = 1]]
                /\ dockerStatus' = [dockerStatus EXCEPT ![c] = "exited"]
    /\ UNCHANGED <<containers, dockerName, nextCid, executions, nextRun, runProj>>
    /\ UNCHANGED <<lpc, lcon, runVars, callVars, pollVars, httpVars>>

\* remove_container leaving the handle of the removed container in the cache
RemoveContainerKeepsEntry(t, p, ok) ==
    /\ lpc[t] = "idle"
    /\ pc[t] = "idle"
    /\ LET c == containers[p]
           call == LifeCall("remove", p)
       IN  IF c = None
           THEN /\ lret' = [lret EXCEPT ![t] = [call EXCEPT !.kind = "value"]]
                /\ UNCHANGED dockerStatus
           ELSE IF RuntimeRaises(c, ok)
           THEN /\ lret' = [lret EXCEPT ![t] =
                              [call EXCEPT !.kind = "value", !.removes = 1]]
                /\ UNCHANGED dockerStatus
           ELSE /\ lret' = [lret EXCEPT ![t] =
                              [call EXCEPT !.kind = "value", !.flag = TRUE,
                                           !.removes = 1]]
                /\ dockerStatus' = [dockerStatus EXCEPT ![c] = "removed"]
    /\ UNCHANGED <<containers, dockerName, nextCid, executions, nextRun, runProj>>
    /\ UNCHANGED <<lpc, lcon, runVars, callVars, pollVars, httpVars>>

\* ContainerService.remove_container: False without a cached handle, otherwise
\* container.remove(force=True) and the eviction of the cache entry, with
\* DockerException turned into False
RemoveContainer(t, p, ok) ==
    /\ lpc[t] = "idle"
    /\ pc[t] = "idle"
    /\ LET c == containers[p]
           call == LifeCall("remove", p)
       IN  IF c = None
           THEN /\ lret' = [lret EXCEPT ![t] = [call EXCEPT !.kind = "value"]]
                /\ UNCHANGED <<containers, dockerStatus>>
           ELSE IF RuntimeRaises(c, ok)
           THEN /\ lret' = [lret EXCEPT ![t] =
                              [call EXCEPT !.kind = "value", !.removes = 1]]
                /\ UNCHANGED <<containers, dockerStatus>>
           ELSE /\ lret' = [lret EXCEPT ![t] =
                              [call EXCEPT !.kind = "value", !.flag = TRUE,
                                           !.removes = 1]]
                /\ dockerStatus' = [dockerStatus EXCEPT ![c] = "removed"]
                /\ containers' = [containers EXCEPT ![p] = None]
    /\ UNCHANGED <<dockerName, nextCid, executions, nextRun, runProj>>
    /\ UNCHANGED <<lpc, lcon, runVars, callVars, pollVars, httpVars>>

\* get_container_id reloading the handle and returning None for a container
\* that is not running
GetContainerIdChecked(t, p) ==
    /\ lpc[t] = "idle"
    /\ pc[t] = "idle"
    /\ lret' = [lret EXCEPT ![t] =
                  [LifeCall("get_id", p) EXCEPT
                      !.kind = "value",
                      !.id = IF CachedRunning(p) THEN containers[p] ELSE None]]
    /\ UNCHANGED <<lpc, lcon, svcVars, runVars, callVars, pollVars, httpVars>>

\* ContainerService.get_container_id: the cached id or None, no liveness check
GetContainerId(t, p) ==
    /\ lpc[t] = "idle"
    /\ pc[t] = "idle"
    /\ lret' = [lret EXCEPT ![t] =
                  [LifeCall("get_id", p) EXCEPT !.kind = "value", !.id = containers[p]]]
    /\ UNCHANGED <<lpc, lcon, svcVars, runVars, callVars, pollVars, httpVars>>

\* what the process of a command writes: nothing, a line, the two bytes of
\* one character, or the first byte of a character alone
CommandOutputs == {<< >>, <<"o", "\n">>, <<"C3", "A9">>, <<"C3">>}

\* exec_command(p, command) for a command that exits with code after writing
\* raw: KeyError without a cached handle, otherwise the CommandResult of
\* container.exec_run, which raises for a container that is not running
CommandResult(p, ok, code, raw) ==
    LET c == containers[p]
        call == LifeCall("exec_command", p)
    IN  IF c = None
        THEN [call EXCEPT !.kind = "raised", !.error = "KeyError"]
        ELSE IF RuntimeRaises(c, ok) \/ dockerStatus[c] # "running"
        THEN [call EXCEPT !.kind = "raised", !.error = "DockerException"]
        ELSE [call EXCEPT !.kind = "value", !.id = c,
                          !.exit_code = code, !.output = Decode(raw)]

\* exec_command raising for a command that exits with a non-zero code
ExecCommandCheckingExit(t, p, ok, code, raw) ==
    /\ lpc[t] = "idle"
    /\ pc[t] = "idle"
    /\ LET r == CommandResult(p, ok, code, raw)
       IN  lret' = [lret EXCEPT ![t] =
                      IF r.kind = "value" /\ code # 0
                      THEN [LifeCall("exec_command", p) EXCEPT
                               !.kind = "raised", !.error = "CalledProcessError"]
                      ELSE r]
    /\ UNCHANGED <<lpc, lcon, svcVars, runVars, callVars, pollVars, httpVars>>

\* a client thread calls ContainerService.exec_command
ExecCommand(t, p, ok, code, raw) ==
    /\ lpc[t] = "idle"
    /\ pc[t] = "idle"
    /\ lret' = [lret EXCEPT ![t] = CommandResult(p, ok, code, raw)]
    /\ UNCHANGED <<lpc, lcon, svcVars, runVars, callVars, pollVars, httpVars>>

\* ------------------------------------------------- the container runtime
\* the container stops outside the service (its process ends, docker stop)
ExternalStop(c) ==
    /\ dockerStatus[c] = "running"
    /\ dockerStatus' = [dockerStatus EXCEPT ![c] = "exited"]
    /\ UNCHANGED <<containers, dockerName, nextCid, executions, nextRun, runProj>>
    /\ UNCHANGED <<runVars, callVars, pollVars, httpVars, lifeVars>>

\* the container is removed outside the service (docker rm -f)
ExternalRemove(c) ==
    /\ dockerStatus[c] \in {"running", "exited"}
    /\ dockerStatus' = [dockerStatus EXCEPT ![c] = "removed"]
    /\ UNCHANGED <<containers, dockerName, nextCid, executions, nextRun, runProj>>
    /\ UNCHANGED <<runVars, callVars, pollVars, httpVars, lifeVars>>

\* ------------------------------------------- ContainerService.exec_claude
\* a client thread calls exec_claude(project_id, prompt)
ExecCall(t, p) ==
    /\ pc[t] = "idle"
    /\ nextRun <= MaxRuns
    /\ pc' = [pc EXCEPT ![t] = "check"]
    /\ proj' = [proj EXCEPT ![t] = p]
    /\ ret' = [ret EXCEPT ![t] = NoResult]
    /\ UNCHANGED <<run, svcVars, runVars, pollVars, httpVars>>
    /\ UNCHANGED lifeVars

\* exec_claude allocating the temporary file before the no-container check
ExecCheckAllocatesFirst(t) ==
    /\ pc[t] = "check"
    /\ nextRun <= MaxRuns
    /\ run' = [run EXCEPT ![t] = nextRun]
    /\ runProj' = [runProj EXCEPT ![nextRun] = proj[t]]
    /\ fileExists' = [fileExists EXCEPT ![nextRun] = TRUE]
    /\ nextRun' = nextRun + 1
    /\ IF containers[proj[t]] = None
       THEN /\ pc' = [pc EXCEPT ![t] = "idle"]
            /\ ret' = [ret EXCEPT ![t] =
                         [kind |-> "raised", error |-> "KeyError",
                          at |-> "check", run |-> None]]
       ELSE /\ pc' = [pc EXCEPT ![t] = "start"]
            /\ UNCHANGED ret
    /\ UNCHANGED <<proj, containers, dockerStatus, dockerName, nextCid, executions>>
    /\ UNCHANGED <<wpc, done, exitCode, fileClosed, content, emitted, raisedAt>>
    /\ UNCHANGED <<pollVars, httpVars, lifeVars>>

\* lines 168-174: the no-container check, then a fresh temporary file, an
\* unset done_event and result = {"exit_code": None}
ExecCheck(t) ==
    /\ pc[t] = "check"
    /\ IF containers[proj[t]] = None
       THEN /\ pc' = [pc EXCEPT ![t] = "idle"]
            /\ ret' = [ret EXCEPT ![t] =
                         [kind |-> "raised", error |-> "KeyError",
                          at |-> "check", run |-> None]]
            /\ UNCHANGED <<run, nextRun, runProj, fileExists>>
       ELSE /\ nextRun <= MaxRuns
            /\ run' = [run EXCEPT ![t] = nextRun]
            /\ runProj' = [runProj EXCEPT ![nextRun] = proj[t]]
            /\ fileExists' = [fileExists EXCEPT ![nextRun] = TRUE]
            /\ nextRun' = nextRun + 1
            /\ pc' = [pc EXCEPT ![t] = "start"]
            /\ UNCHANGED ret
    /\ UNCHANGED <<proj, containers, dockerStatus, dockerName, nextCid, executions>>
    /\ UNCHANGED <<wpc, done, exitCode, fileClosed, content, emitted, raisedAt>>
    /\ UNCHANGED <<pollVars, httpVars>>
    /\ UNCHANGED lifeVars

\* lines 210-211: thread = Thread(target=run_claude); thread.start()
ExecStartThread(t) ==
    /\ pc[t] = "start"
    /\ wpc' = [wpc EXCEPT ![run[t]] = "create"]
    /\ pc' = [pc EXCEPT ![t] = "register"]
    /\ UNCHANGED <<proj, run, ret, svcVars, pollVars, httpVars>>
    /\ UNCHANGED <<done, exitCode, fileExists, fileClosed, content, emitted, raisedAt>>
    /\ UNCHANGED lifeVars

\* lines 214-219: self._executions[project_id] = {...}
ExecRegister(t) ==
    /\ pc[t] = "register"
    /\ executions' = [executions EXCEPT ![proj[t]] = run[t]]
    /\ pc' = [pc EXCEPT ![t] = "join"]
    /\ UNCHANGED <<proj, run, ret, runVars, pollVars, httpVars>>
    /\ UNCHANGED <<containers, dockerStatus, dockerName, nextCid, nextRun, runProj>>
    /\ UNCHANGED lifeVars

\* line 222: thread.join() returns once the worker thread has ended
ExecJoin(t) ==
    /\ pc[t] = "join"
    /\ wpc[run[t]] = "ended"
    /\ pc' = [pc EXCEPT ![t] = "collect"]
    /\ UNCHANGED <<proj, run, ret, svcVars, runVars, pollVars, httpVars>>
    /\ UNCHANGED lifeVars

\* lines 224-237: read the whole file, take the exit code, classify, unlink.
\* The values read stay content[run] and exitCode[run]: the worker has ended.
ExecCollect(t) ==
    /\ pc[t] = "collect"
    /\ fileExists' = [fileExists EXCEPT ![run[t]] = FALSE]
    /\ pc' = [pc EXCEPT ![t] = "delete"]
    /\ UNCHANGED <<proj, run, ret, svcVars, pollVars, httpVars>>
    /\ UNCHANGED <<wpc, done, exitCode, fileClosed, content, emitted, raisedAt>>
    /\ UNCHANGED lifeVars

\* exec_claude is left: its locals output_file and result are dropped with
\* the frame (done_event stays reachable through a record a reader holds)
DropFrame(r) ==
    /\ exitCode' = [exitCode EXCEPT ![r] = NoExit]
    /\ fileClosed' = [fileClosed EXCEPT ![r] = FALSE]
    /\ content' = [content EXCEPT ![r] = << >>]
    /\ emitted' = [emitted EXCEPT ![r] = << >>]
    /\ raisedAt' = [raisedAt EXCEPT ![r] = "nowhere"]
    /\ UNCHANGED <<wpc, done, fileExists>>

\* exec_claude cleaning up with self._executions.clear(): the records of all
\* projects are dropped
ExecDeleteAll(t) ==
    /\ pc[t] = "delete"
    /\ executions' = [p \in Projects |-> None]
    /\ pc' = [pc EXCEPT ![t] = "return"]
    /\ UNCHANGED <<ret, runVars>>
    /\ UNCHANGED <<proj, run, pollVars, httpVars>>
    /\ UNCHANGED <<containers, dockerStatus, dockerName, nextCid, nextRun, runProj>>
    /\ UNCHANGED lifeVars

\* line 238: del self._executions[project_id]; KeyError when the key is gone
ExecDelete(t) ==
    /\ pc[t] = "delete"
    /\ IF executions[proj[t]] = None
       THEN /\ pc' = [pc EXCEPT ![t] = "idle"]
            /\ ret' = [ret EXCEPT ![t] =
                         [kind |-> "raised", error |-> "KeyError",
                          at |-> "delete", run |-> run[t]]]
            /\ DropFrame(run[t])
            /\ UNCHANGED executions
       ELSE /\ executions' = [executions EXCEPT ![proj[t]] = None]
            /\ pc' = [pc EXCEPT ![t] = "return"]
            /\ UNCHANGED <<ret, runVars>>
    /\ UNCHANGED <<proj, run, pollVars, httpVars>>
    /\ UNCHANGED <<containers, dockerStatus, dockerName, nextCid, nextRun, runProj>>
    /\ UNCHANGED lifeVars

\* exit_code = result["exit_code"] or 0
ExitCodeOrZero(r) == IF exitCode[r] = NoExit THEN 0 ELSE exitCode[r]

\* lines 240-244: return ExecutionResult(output, state, exit_code); the
\* outcome also keeps what the process emitted and where the worker raised
ExecReturn(t) ==
    /\ pc[t] = "return"
    /\ pc' = [pc EXCEPT ![t] = "idle"]
    /\ ret' = [ret EXCEPT ![t] =
                 [kind |-> "result", run |-> run[t],
                  output |-> ReadText(content[run[t]]),
                  state |-> DetermineState(ExitCodeOrZero(run[t]),
                                           ReadText(content[run[t]])),
                  exit_code |-> ExitCodeOrZero(run[t]),
                  emitted |-> emitted[run[t]],
                  raised |-> raisedAt[run[t]]]]
    /\ DropFrame(run[t])
    /\ UNCHANGED <<proj, run, svcVars, pollVars, httpVars>>
    /\ UNCHANGED lifeVars

\* ------------------------------------- exec_claude.run_claude (the worker)
\* lines 181-186: exec_create(...) returns or raises
WorkerCreate(r, ok) ==
    /\ wpc[r] = "create"
    /\ wpc' = [wpc EXCEPT ![r] = IF ok THEN "start" ELSE "except"]
    /\ raisedAt' = [raisedAt EXCEPT ![r] = IF ok THEN @ ELSE "create"]
    /\ UNCHANGED <<done, exitCode, fileExists, fileClosed, content, emitted>>
    /\ UNCHANGED <<svcVars, callVars, pollVars, httpVars>>
    /\ UNCHANGED lifeVars

\* line 189: exec_start(exec_id, stream=True) returns or raises
WorkerStart(r, ok) ==
    /\ wpc[r] = "start"
    /\ wpc' = [wpc EXCEPT ![r] = IF ok THEN "stream" ELSE "except"]
    /\ raisedAt' = [raisedAt EXCEPT ![r] = IF ok THEN @ ELSE "start"]
    /\ UNCHANGED <<done, exitCode, fileExists, fileClosed, content, emitted>>
    /\ UNCHANGED <<svcVars, callVars, pollVars, httpVars>>
    /\ UNCHANGED lifeVars

\* the chunk written in front of the text already in the file
WriteChunkInFront(text, chunk) == Decode(chunk) \o text

\* lines 193-195: if chunk: output_file.write(chunk.decode(...)); flush()
WriteChunk(text, chunk) == text \o Decode(chunk)

\* lines 192-195: one iteration of the loop over output_gen
WorkerStream(r, chunk) ==
    /\ wpc[r] = "stream"
    /\ Len(emitted[r]) + Len(chunk) <= MaxOutput
    /\ emitted' = [emitted EXCEPT ![r] = @ \o chunk]
    /\ content' = [content EXCEPT ![r] = WriteChunk(@, chunk)]
    /\ UNCHANGED <<wpc, done, exitCode, fileExists, fileClosed, raisedAt>>
    /\ UNCHANGED <<svcVars, callVars, pollVars, httpVars>>
    /\ UNCHANGED lifeVars

\* line 192: the generator raises instead of yielding
WorkerStreamRaise(r) ==
    /\ wpc[r] = "stream"
    /\ wpc' = [wpc EXCEPT ![r] = "except"]
    /\ raisedAt' = [raisedAt EXCEPT ![r] = "stream"]
    /\ UNCHANGED <<done, exitCode, fileExists, fileClosed, content, emitted>>
    /\ UNCHANGED <<svcVars, callVars, pollVars, httpVars>>
    /\ UNCHANGED lifeVars

\* lines 192, 197: the generator is exhausted; output_file.close()
WorkerStreamEnd(r) ==
    /\ wpc[r] = "stream"
    /\ fileClosed' = [fileClosed EXCEPT ![r] = TRUE]
    /\ wpc' = [wpc EXCEPT ![r] = "inspect"]
    /\ UNCHANGED <<done, exitCode, fileExists, content, emitted, raisedAt>>
    /\ UNCHANGED <<svcVars, callVars, pollVars, httpVars>>
    /\ UNCHANGED lifeVars

\* lines 200-201: result["exit_code"] = inspect.get("ExitCode", 1); the
\* runtime reports an integer, or null (NoExit) for a process it still
\* counts as running; a missing key reads as 1
WorkerInspect(r, code) ==
    /\ wpc[r] = "inspect"
    /\ exitCode' = [exitCode EXCEPT ![r] = code]
    /\ wpc' = [wpc EXCEPT ![r] = "finally"]
    /\ UNCHANGED <<done, fileExists, fileClosed, content, emitted, raisedAt>>
    /\ UNCHANGED <<svcVars, callVars, pollVars, httpVars>>
    /\ UNCHANGED lifeVars

\* line 200: exec_inspect raises
WorkerInspectRaise(r) ==
    /\ wpc[r] = "inspect"
    /\ wpc' = [wpc EXCEPT ![r] = "except"]
    /\ raisedAt' = [raisedAt EXCEPT ![r] = "inspect"]
    /\ UNCHANGED <<done, exitCode, fileExists, fileClosed, content, emitted>>
    /\ UNCHANGED <<svcVars, callVars, pollVars, httpVars>>
    /\ UNCHANGED lifeVars

\* run_claude's handler losing the thread to its own exception: without the
\* finally clause the worker ends and done_event is never set
WorkerExceptNoFinally(r) ==
    /\ wpc[r] = "except"
    /\ IF fileClosed[r]
       THEN /\ wpc' = [wpc EXCEPT ![r] = "ended"]
            /\ UNCHANGED <<content, fileClosed, exitCode>>
       ELSE /\ content' = [content EXCEPT ![r] = @ \o ErrorText]
            /\ fileClosed' = [fileClosed EXCEPT ![r] = TRUE]
            /\ exitCode' = [exitCode EXCEPT ![r] = 1]
            /\ wpc' = [wpc EXCEPT ![r] = "finally"]
    /\ UNCHANGED <<done, fileExists, emitted, raisedAt>>
    /\ UNCHANGED <<svcVars, callVars, pollVars, httpVars>>
    /\ UNCHANGED lifeVars


\* lines 202-205: the handler writes the error text, closes the file and sets
\* exit code 1; on a file already closed the write raises ValueError, which
\* leaves the handler before line 205
WorkerExcept(r) ==
    /\ wpc[r] = "except"
    /\ IF fileClosed[r]
       THEN UNCHANGED <<content, fileClosed, exitCode>>
       ELSE /\ content' = [content EXCEPT ![r] = @ \o ErrorText]
            /\ fileClosed' = [fileClosed EXCEPT ![r] = TRUE]
            /\ exitCode' = [exitCode EXCEPT ![r] = 1]
    /\ wpc' = [wpc EXCEPT ![r] = "finally"]
    /\ UNCHANGED <<done, fileExists, emitted, raisedAt>>
    /\ UNCHANGED <<svcVars, callVars, pollVars, httpVars>>
    /\ UNCHANGED lifeVars

\* lines 206-207: finally: done_event.set(); the thread ends
WorkerFinally(r) ==
    /\ wpc[r] = "finally"
    /\ done' = [done EXCEPT ![r] = TRUE]
    /\ wpc' = [wpc EXCEPT ![r] = "ended"]
    /\ UNCHANGED <<exitCode, fileExists, fileClosed, content, emitted, raisedAt>>
    /\ UNCHANGED <<svcVars, callVars, pollVars, httpVars>>
    /\ UNCHANGED lifeVars

\* ------------------------------------------ ContainerService.get_progress
\* lines 274-280: the membership test; no record gives the idle ProgressInfo
ProgressCheck(p) ==
    /\ ppc = "idle"
    /\ pproj' = p
    /\ IF executions[p] = None
       THEN /\ pres' = [kind |-> "result", project |-> p, run |-> None,
                        info |-> NoExecution]
            /\ UNCHANGED ppc
       ELSE /\ ppc' = "lookup"
            /\ UNCHANGED pres
    /\ UNCHANGED <<prec, pout, svcVars, runVars, callVars, httpVars>>
    /\ UNCHANGED lifeVars

\* line 282: exec_info = self._executions[project_id]; KeyError when the
\* record was deleted after the membership test
ProgressLookup ==
    /\ ppc = "lookup"
    /\ IF executions[pproj] = None
       THEN /\ pres' = [kind |-> "raised", project |-> pproj, error |-> "KeyError"]
            /\ ppc' = "idle"
            /\ UNCHANGED prec
       ELSE /\ prec' = executions[pproj]
            /\ ppc' = "read"
            /\ UNCHANGED pres
    /\ UNCHANGED <<pproj, pout, svcVars, runVars, callVars, httpVars>>
    /\ UNCHANGED lifeVars

\* lines 283-287: read the file, "" when it cannot be opened
ProgressRead ==
    /\ ppc = "read"
    /\ pout' = ReadOutputFile(prec)
    /\ ppc' = "return"
    /\ UNCHANGED <<pproj, prec, pres, svcVars, runVars, callVars, httpVars>>
    /\ UNCHANGED lifeVars

\* get_progress dropping the record of a finished execution as it returns
ProgressReturnReaping ==
    /\ ppc = "return"
    /\ pres' = [kind |-> "result", project |-> pproj, run |-> prec,
                info |-> ProgressOf(prec, pout)]
    /\ ppc' = "idle"
    /\ executions' = [executions EXCEPT
                        ![pproj] = IF done[prec] /\ @ = prec THEN None ELSE @]
    /\ UNCHANGED <<containers, dockerStatus, dockerName, nextCid, nextRun, runProj>>
    /\ UNCHANGED <<pproj, prec, pout, runVars, callVars, httpVars>>
    /\ UNCHANGED lifeVars

\* lines 289-298: return ProgressInfo(running, output, recent, bytes)
ProgressReturn ==
    /\ ppc = "return"
    /\ pres' = [kind |-> "result", project |-> pproj, run |-> prec,
                info |-> ProgressOf(prec, pout)]
    /\ ppc' = "idle"
    /\ UNCHANGED <<pproj, prec, pout, svcVars, runVars, callVars, httpVars>>
    /\ UNCHANGED lifeVars

\* -------------------------------------------------------------------- Spec
\* the worker thread of run r takes a step
Worker(r) ==
    \/ \E ok \in BOOLEAN : WorkerCreate(r, ok)
    \/ \E ok \in BOOLEAN : WorkerStart(r, ok)
    \/ \E chunk \in Chunks : WorkerStream(r, chunk)
    \/ WorkerStreamRaise(r)
    \/ WorkerStreamEnd(r)
    \/ \E code \in ExitCodes \cup {NoExit} : WorkerInspect(r, code)
    \/ WorkerInspectRaise(r)
    \/ WorkerExcept(r)
    \/ WorkerFinally(r)

\* a thread inside exec_claude takes a step
Exec(t) ==
    \/ ExecCheck(t)
    \/ ExecStartThread(t)
    \/ ExecRegister(t)
    \/ ExecJoin(t)
    \/ ExecCollect(t)
    \/ ExecDelete(t)
    \/ ExecReturn(t)

\* the thread inside get_progress takes a step
Progress ==
    \/ ProgressLookup
    \/ ProgressRead
    \/ ProgressReturn

\* one client thread running exec_claude calls for RunProject one after the
\* other, a second thread polling get_progress for any project, and the
\* worker threads
Next ==
    \/ \E ok \in BOOLEAN : EnsureContainer(RunProject, ok)
    \/ ExecCall(LoopThread, RunProject)
    \/ Exec(LoopThread)
    \/ \E r \in Runs : Worker(r)
    \/ \E p \in Projects : ProgressCheck(p)
    \/ Progress

Spec == Init /\ [][Next]_vars

\* ------------------------------------------------------------ SpecOverlap
\* the worker thread of run r, for a process that emits "B" chunks and exits
\* 0 or 1, or whose stream raises
WorkerPlain(r) ==
    \/ WorkerCreate(r, TRUE)
    \/ WorkerStart(r, TRUE)
    \/ WorkerStream(r, <<"B">>)
    \/ WorkerStreamRaise(r)
    \/ WorkerStreamEnd(r)
    \/ \E code \in {0, 1} : WorkerInspect(r, code)
    \/ WorkerExcept(r)
    \/ WorkerFinally(r)

\* the worker thread of run r when the runtime refuses to create the exec
WorkerRefused(r) ==
    \/ WorkerCreate(r, FALSE)
    \/ WorkerExcept(r)
    \/ WorkerFinally(r)

\* two client threads calling exec_claude for the same project at the same
\* time, a third thread polling get_progress, and the worker threads
NextOverlap ==
    \/ EnsureContainer(RunProject, TRUE)
    \/ \E t \in Callers : ExecCall(t, RunProject)
    \/ \E t \in Callers : Exec(t)
    \/ \E r \in Runs : WorkerPlain(r)
    \/ ProgressCheck(RunProject)
    \/ Progress

SpecOverlap == Init /\ [][NextOverlap]_vars

\* ------------------------------------------------------- request handlers
\* what project_service.get_project finds in the workspace: both projects are
\* git repositories, p1 with a .beads directory; any other id is not found
ProjectIds == Projects \cup {"nope"}
HasBeads(id) == id = "p1"
ProjectFound(id) == id \in Projects

Requests == [kind : {"work", "review", "progress"}, project : ProjectIds]

\* a client sends a request; it waits until the event loop takes it
HttpArrive(req) ==
    /\ req \notin pending
    /\ Cardinality(pending) < MaxRequests
    /\ pending' = pending \cup {req}
    /\ UNCHANGED <<loop, current, response>>
    /\ UNCHANGED <<svcVars, runVars, callVars, pollVars>>
    /\ UNCHANGED lifeVars

\* the tracker check of work_on_bead left out
RunPrecheckNoTracker(req) ==
    IF ~ProjectFound(req.project) THEN 404 ELSE 0

\* the status work_on_bead / review_work answer before ensure_container
\* (main.py lines 131-139, 177-179); 0 when the handler goes on
RunPrecheck(req) ==
    IF ~ProjectFound(req.project) THEN 404
    ELSE IF req.kind = "work" /\ ~HasBeads(req.project) THEN 400
    ELSE 0

\* work_on_bead / review_work up to the call of exec_claude: the event loop
\* starts the coroutine, which runs without awaiting (main.py 131-160, 177-195)
HttpRun(req, ok) ==
    /\ loop = "idle"
    /\ req \in pending
    /\ req.kind \in {"work", "review"}
    /\ nextRun <= MaxRuns
    /\ pending' = pending \ {req}
    /\ IF RunPrecheck(req) # 0
       THEN /\ response' = [request |-> req, status |-> RunPrecheck(req)]
            /\ UNCHANGED <<loop, current, containers, dockerStatus, dockerName, nextCid>>
            /\ UNCHANGED callVars
       ELSE /\ EnsureEffect(req.project, ok)
            /\ IF EnsureRaises(req.project, ok)
               THEN /\ response' = [request |-> req, status |-> 500]
                    /\ UNCHANGED <<loop, current, callVars>>
               ELSE /\ loop' = "run"
                    /\ current' = req
                    /\ pc' = [pc EXCEPT ![LoopThread] = "check"]
                    /\ proj' = [proj EXCEPT ![LoopThread] = req.project]
                    /\ ret' = [ret EXCEPT ![LoopThread] = NoResult]
                    /\ UNCHANGED <<run, response>>
    /\ UNCHANGED <<executions, nextRun, runProj, runVars, pollVars>>
    /\ UNCHANGED lifeVars

\* work_on_bead / review_work answering 500 for a run that did not complete
HttpRunRespondFailing ==
    /\ loop = "run"
    /\ pc[LoopThread] = "idle"
    /\ ret[LoopThread].kind # "none"
    /\ response' =
          IF ret[LoopThread].kind = "result" /\ ret[LoopThread].state = "completed"
          THEN [request |-> current, status |-> 200,
                state |-> ret[LoopThread].state,
                exit_code |-> ret[LoopThread].exit_code]
          ELSE [request |-> current, status |-> 500]
    /\ loop' = "idle"
    /\ current' = NoResult
    /\ UNCHANGED <<pending, svcVars, runVars, callVars, pollVars>>
    /\ UNCHANGED lifeVars

\* main.py 161-165, 196-200: exec_claude returned (200 with the
\* ExecutionResult, here its state and exit code) or raised (500); the
\* coroutine ends and the loop is free again
HttpRunRespond ==
    /\ loop = "run"
    /\ pc[LoopThread] = "idle"
    /\ ret[LoopThread].kind # "none"
    /\ response' =
          IF ret[LoopThread].kind = "result"
          THEN [request |-> current, status |-> 200,
                state |-> ret[LoopThread].state,
                exit_code |-> ret[LoopThread].exit_code]
          ELSE [request |-> current, status |-> 500]
    /\ loop' = "idle"
    /\ current' = NoResult
    /\ UNCHANGED <<pending, svcVars, runVars, callVars, pollVars>>
    /\ UNCHANGED lifeVars

\* get_progress (main.py 285-297) up to the call of the service
HttpProgress(req) ==
    /\ loop = "idle"
    /\ req \in pending
    /\ req.kind = "progress"
    /\ pending' = pending \ {req}
    /\ IF ~ProjectFound(req.project)
       THEN /\ response' = [request |-> req, status |-> 404]
            /\ UNCHANGED <<loop, current, pollVars>>
       ELSE /\ loop' = "progress"
            /\ current' = req
            /\ pres' = NoResult
            /\ UNCHANGED <<response, ppc, pproj, prec, pout>>
    /\ UNCHANGED <<svcVars, runVars, callVars>>
    /\ UNCHANGED lifeVars

\* main.py 297: container_service.get_progress(project_id) is entered
HttpProgressCall ==
    /\ loop = "progress"
    /\ pres = NoResult
    /\ ProgressCheck(current.project)

\* main.py 297: the ProgressInfo is returned with 200 (500 if the service raised)
HttpProgressRespond ==
    /\ loop = "progress"
    /\ ppc = "idle"
    /\ pres # NoResult
    /\ response' = [request |-> current,
                    status |-> IF pres.kind = "result" THEN 200 ELSE 500]
    /\ loop' = "idle"
    /\ current' = NoResult
    /\ UNCHANGED <<pending, svcVars, runVars, callVars, pollVars>>
    /\ UNCHANGED lifeVars

\* the event loop thread runs one handler at a time; the worker threads run
\* beside it.  A progress handler starts only when no run handler is on the
\* loop, so its get_progress finds no record and ends in ProgressCheck; the
\* later steps of get_progress are never reached from here.
NextHTTP ==
    \/ \E req \in Requests : HttpArrive(req)
    \/ \E req \in Requests, ok \in BOOLEAN : HttpRun(req, ok)
    \/ Exec(LoopThread)
    \/ HttpRunRespond
    \/ \E req \in Requests : HttpProgress(req)
    \/ HttpProgressCall
    \/ HttpProgressRespond
    \/ \E r \in Runs : WorkerPlain(r)

SpecHTTP == Init /\ [][NextHTTP]_vars

\* ---------------------------------------------------------------- SpecApi
\* a client sends a request to the idle server and waits for its response
\* before it sends the next one
HttpArriveAlone(req) ==
    /\ loop = "idle"
    /\ pending = {}
    /\ HttpArrive(req)

RunRequests == [kind : {"work", "review"}, project : ProjectIds]

\* clients sending Run-task and Review requests one at a time; the handler
\* runs on the event loop thread and the worker threads beside it
NextApi ==
    \/ \E req \in RunRequests : HttpArriveAlone(req)
    \/ \E req \in RunRequests, ok \in BOOLEAN : HttpRun(req, ok)
    \/ Exec(LoopThread)
    \/ HttpRunRespond
    \/ \E r \in Runs : Worker(r)

SpecApi == Init /\ [][NextApi]_vars

\* ------------------------------------------------------------- SpecAttach
AttachRequests == [kind : {"attach"}, project : ProjectIds]

\* get_attach_info (main.py 300-321): 404 for an unknown project, 404 when
\* get_container_id returns None, otherwise 200 with the id of the cached
\* handle
HttpAttach(req) ==
    /\ loop = "idle"
    /\ req \in pending
    /\ req.kind = "attach"
    /\ pending' = pending \ {req}
    /\ response' =
          IF ~ProjectFound(req.project)
          THEN [request |-> req, status |-> 404, detail |-> "Project not found"]
          ELSE IF containers[req.project] = None
          THEN [request |-> req, status |-> 404, detail |-> "Container not running"]
          ELSE [request |-> req, status |-> 200,
                container_id |-> containers[req.project]]
    /\ UNCHANGED <<loop, current, svcVars, runVars, callVars, pollVars, lifeVars>>

\* clients asking for attach information one request at a time, while the
\* service starts, stops and removes containers and containers stop or
\* disappear outside the service
NextAttach ==
    \/ \E req \in AttachRequests : HttpArriveAlone(req)
    \/ \E req \in AttachRequests : HttpAttach(req)
    \/ \E p \in Projects, ok \in BOOLEAN : EnsureContainer(p, ok)
    \/ \E p \in Projects, ok \in BOOLEAN : StopContainer(LoopThread, p, ok)
    \/ \E p \in Projects, ok \in BOOLEAN : RemoveContainer(LoopThread, p, ok)
    \/ \E c \in Cids : ExternalStop(c)
    \/ \E c \in Cids : ExternalRemove(c)

SpecAttach == Init /\ [][NextAttach]_vars

\* --------------------------------------------------------------- SpecPush
\* characters of PR titles and branch names: a letter, a slash, and the
\* characters the shell treats specially
ShellChars == {"a", "/", " ", "'", "\"", ";", "#", "\\"}
ShellStrings == UNION {[1 .. n -> ShellChars] : n \in 0 .. MaxTitle}

\* the output of gh pr create: lines of words, with github.com ("g") and
\* /pull/ ("p")
PrTexts == UNION {[1 .. n -> {"g", "p", " ", "\n"}] : n \in 0 .. MaxPrOutput}

\* a Push+PR request; the title of its body is read by the handler
PushRequests == [kind : {"push"}, project : ProjectIds]
RunProjectPush == [kind |-> "push", project |-> RunProject]

\* what one command does: the runtime runs it (ok) or raises, its exit code
\* and the bytes it writes
PlainRuns == [ok : BOOLEAN, code : {0, 1}, raw : {<<"a", "\n">>}]
GoodRun == [ok |-> TRUE, code |-> 0, raw |-> <<"a", "\n">>]
\* three commands of which at most one fails or cannot be run
PlainScenarios ==
    {sc \in [1 .. 3 -> PlainRuns] :
        \A i, j \in 1 .. 3 : (sc[i] # GoodRun /\ sc[j] # GoodRun) => i = j}
BranchRuns == [ok : {TRUE}, code : {0}, raw : ShellStrings]
PrRuns == [ok : {TRUE}, code : {0}, raw : PrTexts]

\* a client that has read the last response sends the next request
HttpArriveFresh(req) ==
    /\ loop = "idle"
    /\ pending = {}
    /\ pending' = {req}
    /\ response' = NoResult
    /\ UNCHANGED <<loop, current, svcVars, runVars, callVars, pollVars, lifeVars>>

\* a command that never counts as failed
CommandFailedNever(r) == FALSE

\* if result.exit_code != 0 (main.py 227, 238, 255)
CommandFailed(r) == r.exit_code # 0

\* one call of exec_command as the handler sees it: the command line and the
\* CommandResult or the exception
PushCall(command, r) ==
    [command |-> command, kind |-> r.kind, error |-> r.error,
     exit_code |-> r.exit_code, output |-> r.output]

\* main.py 275-280: KeyError and any other exception of a command become 500
PushRaised(req, title, r, calls) ==
    [request |-> req, title |-> title, status |-> 500,
     detail |-> IF r.error = "KeyError" THEN <<"Container not available">>
                ELSE <<"Push/PR creation failed: ", r.error>>,
     calls |-> calls]

\* main.py 228-231, 239-242, 256-259: HTTPException(500, f"{what}: {output}")
PushFailed(req, title, what, r, calls) ==
    [request |-> req, title |-> title, status |-> 500,
     detail |-> <<what>> \o r.output, calls |-> calls]

\* main.py 223-280 after ensure_container: the three commands, r1, r2 and r3
\* being what exec_command gives for them
PushOutcome(req, title, r1, r2, r3) ==
    LET branch == Strip(r1.output)
        c1 == << PushCall(BranchCmd, r1) >>
        c2 == c1 \o << PushCall(PushCmd(branch), r2) >>
        c3 == c2 \o << PushCall(PrCmd(title), r3) >>
    IN  IF r1.kind = "raised" THEN PushRaised(req, title, r1, c1)
        ELSE IF CommandFailed(r1)
        THEN PushFailed(req, title, "Failed to get branch name: ", r1, c1)
        ELSE IF r2.kind = "raised" THEN PushRaised(req, title, r2, c2)
        ELSE IF CommandFailed(r2)
        THEN PushFailed(req, title, "Git push failed: ", r2, c2)
        ELSE IF r3.kind = "raised" THEN PushRaised(req, title, r3, c3)
        ELSE IF CommandFailed(r3)
        THEN PushFailed(req, title, "PR creation failed: ", r3, c3)
        ELSE [request |-> req, title |-> title, status |-> 200, branch |-> branch,
              push_output |-> r2.output, pr_output |-> r3.output,
              pr_url |-> PrUrl(r3.output), calls |-> c3]

\* push_and_create_pr (main.py 203-280) for a body with the given title (empty
\* for no body or no title): 404 for an unknown project, 500 when
\* ensure_container raises, otherwise the outcome of the three commands run
\* in the container that ensure_container returned
HttpPush(req, title, ok, run1, run2, run3) ==
    /\ loop = "idle"
    /\ req \in pending
    /\ req.kind = "push"
    /\ pending' = pending \ {req}
    /\ IF ~ProjectFound(req.project)
       THEN /\ response' = [request |-> req, title |-> title, status |-> 404,
                            detail |-> <<"Project not found">>, calls |-> << >>]
            /\ UNCHANGED <<containers, dockerStatus, dockerName, nextCid>>
       ELSE /\ EnsureEffect(req.project, ok)
            /\ response' =
                 IF EnsureRaises(req.project, ok)
                 THEN [request |-> req, title |-> title, status |-> 500,
                       detail |-> <<"Failed to start container: ", "DockerException">>,
                       calls |-> << >>]
                 ELSE PushOutcome(req, title,
                        CommandResult(req.project, run1.ok, run1.code, run1.raw)',
                        CommandResult(req.project, run2.ok, run2.code, run2.raw)',
                        CommandResult(req.project, run3.ok, run3.code, run3.raw)')
    /\ UNCHANGED <<loop, current, executions, nextRun, runProj>>
    /\ UNCHANGED <<runVars, callVars, pollVars, lifeVars>>

\* clients sending Push+PR requests one at a time: with any title and
\* commands that succeed, fail or cannot be run; for RunProject also with any
\* branch name and with any output of gh pr create; containers disappear
\* outside the service
NextPush ==
    \/ \E req \in PushRequests : HttpArriveFresh(req)
    \/ \E req \in pending, title \in ShellStrings, ok \in BOOLEAN,
          sc \in PlainScenarios :
            HttpPush(req, title, ok, sc[1], sc[2], sc[3])
    \/ \E req \in pending \cap {RunProjectPush}, run1 \in BranchRuns :
            HttpPush(req, << >>, TRUE, run1, GoodRun, GoodRun)
    \/ \E req \in pending \cap {RunProjectPush}, run3 \in PrRuns :
            HttpPush(req, << >>, TRUE, GoodRun, GoodRun, run3)
    \/ \E c \in Cids : ExternalRemove(c)

SpecPush == Init /\ [][NextPush]_vars

\* ----------------------------------------------------------- SpecProjects
\* a path is the sequence of its components below "/"; the workspace is /w
WorkspaceRoot == <<"w">>

\* the file system: /w and its project p1 are git repositories, and so are
\* /etc and /p1 outside the workspace; /w/ln is a symbolic link to /etc
GitRepos == {<<"w">>, <<"w", "p1">>, <<"etc">>, <<"p1">>}
BeadsDirs == {<<"w", "p1">>}
FollowLink(path) == IF path = <<"w", "ln">> THEN <<"etc">> ELSE path

\* project identifiers: relative or absolute paths of up to MaxSegments
\* components
SegmentNames == {"..", ".", "p1", "w", "etc", "ln"}
PathIds ==
    [absolute : BOOLEAN,
     segs : UNION {[1 .. n -> SegmentNames] : n \in 0 .. MaxSegments}]

\* Path.resolve(): "." is dropped, ".." goes to the parent ("/" is its own
\* parent), a symbolic link is replaced by its target
RECURSIVE ResolveFrom(_, _)
ResolveFrom(base, segs) ==
    IF segs = << >> THEN base
    ELSE LET seg == Head(segs)
             next == IF seg = "." THEN base
                     ELSE IF seg = ".."
                     THEN (IF base = << >> THEN base
                           ELSE SubSeq(base, 1, Len(base) - 1))
                     ELSE FollowLink(Append(base, seg))
         IN  ResolveFrom(next, Tail(segs))

\* projects.py 67-68: (workspace / project_id).resolve(); an absolute
\* project_id replaces the workspace in the join
ProjectPath(id) ==
    ResolveFrom(IF id.absolute THEN << >> ELSE WorkspaceRoot, id.segs)

\* the containment test accepting every path
IsPathAnywhere(path, workspace) == TRUE

\* ProjectService._is_path_within_workspace: path.relative_to(workspace)
\* does not raise
IsPathWithinWorkspace(path, workspace) == IsPrefix(workspace, path)

NoProject == [found |-> FALSE]

\* ProjectService.get_project (projects.py 54-85)
GetProject(id) ==
    LET path == ProjectPath(id)
    IN  IF ~IsPathWithinWorkspace(path, WorkspaceRoot) THEN NoProject
        ELSE IF path \notin GitRepos THEN NoProject
        ELSE [found |-> TRUE, id |-> id, path |-> path,
              has_beads |-> path \in BeadsDirs]

\* a request for one project; the handler reads the identifier from the URL
ProjectRequest == [kind |-> "project"]

\* get_project (main.py 72-79) for the identifier id: 404 when the service
\* returns None, otherwise 200 with the Project
HttpGetProject(req, id) ==
    /\ loop = "idle"
    /\ req \in pending
    /\ req.kind = "project"
    /\ pending' = pending \ {req}
    /\ response' =
          IF GetProject(id).found
          THEN [request |-> req, id |-> id, status |-> 200, project |-> GetProject(id)]
          ELSE [request |-> req, id |-> id, status |-> 404,
                detail |-> "Project not found"]
    /\ UNCHANGED <<loop, current, svcVars, runVars, callVars, pollVars, lifeVars>>

\* clients asking for projects by any identifier, one request at a time
NextProjects ==
    \/ HttpArriveFresh(ProjectRequest)
    \/ \E req \in pending, id \in PathIds : HttpGetProject(req, id)

SpecProjects == Init /\ [][NextProjects]_vars

\* ------------------------------------------------------------ SpecScanner
\* the names a directory entry may have, in ascending order
NameOrder == <<"etc", "ln", "p1", "w">>

\* projects.py 37-41: item is an entry of the workspace, item.is_dir() and
\* (item / ".git").exists(), both of which follow a symbolic link
IsListed(name) == FollowLink(Append(WorkspaceRoot, name)) \in GitRepos

\* ProjectService.list_projects (projects.py 23-52) for the workspace that
\* exists: one Project per listed entry, sorted by name
ListProjects ==
    LET names == SelectSeq(NameOrder, IsListed)
    IN  [i \in DOMAIN names |->
            [found |-> TRUE,
             id |-> [absolute |-> FALSE, segs |-> <<names[i]>>],
             path |-> Append(WorkspaceRoot, names[i]),
             has_beads |-> FollowLink(Append(WorkspaceRoot, names[i])) \in BeadsDirs]]

\* a request for the list of projects
ListRequest == [kind |-> "projects"]

\* list_projects (main.py 65-69): 200 with the list the service returns
HttpListProjects(req) ==
    /\ loop = "idle"
    /\ req \in pending
    /\ req.kind = "projects"
    /\ pending' = pending \ {req}
    /\ response' = [request |-> req, status |-> 200, projects |-> ListProjects]
    /\ UNCHANGED <<loop, current, svcVars, runVars, callVars, pollVars, lifeVars>>

\* clients asking for the list of projects and for projects by any
\* identifier, one request at a time
NextScanner ==
    \/ HttpArriveFresh(ProjectRequest)
    \/ HttpArriveFresh(ListRequest)
    \/ \E req \in pending : HttpListProjects(req)
    \/ \E req \in pending, id \in PathIds : HttpGetProject(req, id)

SpecScanner == Init /\ [][NextScanner]_vars

\* ------------------------------------------------------------- SpecMounts
\* the host paths _get_volume_mounts may look at, and ~/.local/bin/claude
HostPaths == {"/usr/local/bin/claude", "~/.local/bin/claude",
              "~/.claude", "~/.gitconfig", "~/.ssh"}

\* project paths: three projects of the workspace, and a project that is the
\* directory ~/.claude
ProjectPaths == {"/w/p1", "/w/p2", "/w/p3", "~/.claude"}

\* volumes[host] = {"bind": bind, "mode": mode}: one entry per key
PutVolume(volumes, host, bind, mode) ==
    {m \in volumes : m.host # host}
        \cup {[host |-> host, bind |-> bind, mode |-> mode]}

\* lines 130-148: if path.exists(): volumes[str(path)] = {...}
PutIfExists(volumes, exists, host, bind, mode) ==
    IF host \in exists THEN PutVolume(volumes, host, bind, mode) ELSE volumes

\* ContainerService._get_volume_mounts(project_path) on a host where the
\* paths in exists exist
VolumeMounts(project_path, exists) ==
    LET v0 == PutVolume({}, project_path, "/workspace", "rw")
        v1 == PutIfExists(v0, exists, "/usr/local/bin/claude",
                          "/usr/local/bin/claude", "ro")
        v2 == PutIfExists(v1, exists, "~/.claude", "/home/claude/.claude", "rw")
        v3 == PutIfExists(v2, exists, "~/.gitconfig", "/home/claude/.gitconfig", "ro")
    IN  PutIfExists(v3, exists, "~/.ssh", "/home/claude/.ssh", "ro")

\* a client thread calls _get_volume_mounts(project_path)
GetVolumeMounts(t, project_path, exists) ==
    /\ lpc[t] = "idle"
    /\ pc[t] = "idle"
    /\ lret' = [lret EXCEPT ![t] =
                  [LifeCall("mounts", project_path) EXCEPT
                      !.kind = "value", !.host = exists,
                      !.volumes = VolumeMounts(project_path, exists)]]
    /\ UNCHANGED <<lpc, lcon, svcVars, runVars, callVars, pollVars, httpVars>>

\* the mount set computed for any project path on any host
NextMounts ==
    \E path \in ProjectPaths, exists \in SUBSET HostPaths :
        GetVolumeMounts(LoopThread, path, exists)

SpecMounts == Init /\ [][NextMounts]_vars

\* ---------------------------------------------------------- SpecLifecycle
\* project_path arguments: empty, or the path of the project
Paths == {"", "/w"}

\* one client thread calling the methods of the service one after the other
\* for any project, while containers stop or disappear outside the service;
\* the executions it starts end at once, their exec being refused
NextLifecycle ==
    \/ \E p \in Projects, path \in Paths : EnsureCall(LoopThread, p, path)
    \/ Ensure(LoopThread)
    \/ \E p \in Projects, ok \in BOOLEAN : StopContainer(LoopThread, p, ok)
    \/ \E p \in Projects, ok \in BOOLEAN : RemoveContainer(LoopThread, p, ok)
    \/ \E p \in Projects : GetContainerId(LoopThread, p)
    \/ \E p \in Projects, ok \in BOOLEAN : ExecCommand(LoopThread, p, ok, 0, << >>)
    \/ \E p \in Projects : lpc[LoopThread] = "idle" /\ ExecCall(LoopThread, p)
    \/ Exec(LoopThread)
    \/ \E r \in Runs : WorkerRefused(r)
    \/ \E c \in Cids : ExternalStop(c)
    \/ \E c \in Cids : ExternalRemove(c)

SpecLifecycle == Init /\ [][NextLifecycle]_vars

\* ---------------------------------------------------------- SpecEnsureRace
\* two client threads calling ensure_container at the same time, for the
\* same project or for different ones; the runtime is available and refuses
\* only a name in use; containers may be removed outside
NextEnsureRace ==
    \/ \E t \in Callers, p \in Projects : EnsureCall(t, p, "/w")
    \/ \E t \in Callers : EnsureReload(t)
    \/ \E t \in Callers : EnsureCreate(t, TRUE)
    \/ \E t \in Callers : EnsureCache(t)
    \/ \E c \in Cids : ExternalRemove(c)

SpecEnsureRace == Init /\ [][NextEnsureRace]_vars

\* ------------------------------------------------------------ SpecCommand
\* the second thread of the service
OtherThread == "t2"

\* one client thread running exec_claude calls for RunProject while a second
\* thread calls exec_command for any project, with any command
NextCommand ==
    \/ EnsureContainer(RunProject, TRUE)
    \/ ExecCall(LoopThread, RunProject)
    \/ Exec(LoopThread)
    \/ \E r \in Runs : WorkerPlain(r)
    \/ \E p \in Projects, ok \in BOOLEAN, code \in ExitCodes, raw \in CommandOutputs :
            ExecCommand(OtherThread, p, ok, code, raw)

SpecCommand == Init /\ [][NextCommand]_vars

\* ------------------------------------------------------------- SpecStream
\* chunks of a process that ends its lines with "\r\n" or redraws a line
\* with "\r"
LineChunks == {<<"a">>, <<"\n">>, <<"\r">>, <<"\r", "\n">>}

\* the worker thread of run r for such a process; the stream may break, the
\* runtime answers every other call
WorkerLines(r) ==
    \/ WorkerCreate(r, TRUE)
    \/ WorkerStart(r, TRUE)
    \/ \E chunk \in LineChunks : WorkerStream(r, chunk)
    \/ WorkerStreamRaise(r)
    \/ WorkerStreamEnd(r)
    \/ \E code \in {0, 1} : WorkerInspect(r, code)
    \/ WorkerExcept(r)
    \/ WorkerFinally(r)

\* one client thread running exec_claude calls for RunProject
NextStream ==
    \/ EnsureContainer(RunProject, TRUE)
    \/ ExecCall(LoopThread, RunProject)
    \/ Exec(LoopThread)
    \/ \E r \in Runs : WorkerLines(r)

SpecStream == Init /\ [][NextStream]_vars

\* --------------------------------------------------------------- SpecText
\* get_progress as a function of the text in the buffer: an execution of
\* RunProject is in flight, its worker is streaming, and the buffer holds any
\* text of lines of "a" (up to MaxText characters) or any short text with the
\* character "U", which stands for a character of two bytes in UTF-8 ("\u00e9")
TextsOfLines == UNION {[1 .. n -> {"a", "\n"}] : n \in 0 .. MaxText}
TextsWide == UNION {[1 .. n -> {"a", "U", "\n"}] : n \in 0 .. 2}

InitText ==
    /\ containers = [p \in Projects |-> IF p = RunProject THEN 1 ELSE None]
    /\ dockerStatus = [c \in Cids |-> IF c = 1 THEN "running" ELSE "none"]
    /\ dockerName = [c \in Cids |-> IF c = 1 THEN RunProject ELSE "-"]
    /\ nextCid = 2
    /\ executions = [p \in Projects |-> IF p = RunProject THEN 1 ELSE None]
    /\ nextRun = 2
    /\ runProj = [r \in Runs |-> IF r = 1 THEN RunProject ELSE "-"]
    /\ wpc = [r \in Runs |-> IF r = 1 THEN "stream" ELSE "unborn"]
    /\ done = [r \in Runs |-> FALSE]
    /\ exitCode = [r \in Runs |-> NoExit]
    /\ fileExists = [r \in Runs |-> r = 1]
    /\ fileClosed = [r \in Runs |-> FALSE]
    /\ \E text \in TextsOfLines \cup TextsWide :
          /\ content = [r \in Runs |-> IF r = 1 THEN text ELSE << >>]
          /\ emitted = content
    /\ raisedAt = [r \in Runs |-> "nowhere"]
    /\ pc = [t \in Callers |-> IF t = LoopThread THEN "join" ELSE "idle"]
    /\ proj = [t \in Callers |-> IF t = LoopThread THEN RunProject ELSE "-"]
    /\ run = [t \in Callers |-> IF t = LoopThread THEN 1 ELSE None]
    /\ ret = [t \in Callers |-> NoResult]
    /\ ppc = "idle"
    /\ pproj = "-"
    /\ prec = None
    /\ pout = << >>
    /\ pres = NoResult
    /\ loop = "idle"
    /\ current = NoResult
    /\ pending = {}
    /\ response = NoResult
    /\ lpc = [t \in Callers |-> "idle"]
    /\ lcon = [t \in Callers |-> None]
    /\ lret = [t \in Callers |-> NoCall]

\* a thread polls get_progress for the project of the execution
NextText ==
    \/ ProgressCheck(RunProject)
    \/ Progress

SpecText == InitText /\ [][NextText]_vars

\* --------------------------------------------------------- SpecCompletion
\* output_gen is left
WorkerAfterStream(r) ==
    \/ \E code \in ExitCodes \cup {NoExit} : WorkerInspect(r, code)
    \/ WorkerInspectRaise(r)
    \/ WorkerExcept(r)
    \/ WorkerFinally(r)

\* one client thread running exec_claude calls for RunProject, and the
\* worker threads, against a runtime that may refuse or break every call
NextCompletion ==
    \/ EnsureContainer(RunProject, TRUE)
    \/ ExecCall(LoopThread, RunProject)
    \/ Exec(LoopThread)
    \/ \E r \in Runs : Worker(r)

\* threads are scheduled: a thread that can take its next statement takes it.
\* exec_inspect is a request with the client's timeout, it returns or raises;
\* nothing makes the process end its stream.
FairCompletion ==
    /\ WF_vars(Exec(LoopThread))
    /\ \A r \in Runs : WF_vars(WorkerAfterStream(r))

SpecCompletion == Init /\ [][NextCompletion]_vars /\ FairCompletion

\* -------------------------------------------------------------- SpecFrame
\* one client thread calling every method of the service one after the other
\* for RunProject, a second thread polling get_progress, and containers that
\* disappear outside the service
NextFrame ==
    \/ EnsureCall(LoopThread, RunProject, "/w")
    \/ Ensure(LoopThread)
    \/ \E ok \in BOOLEAN : StopContainer(LoopThread, RunProject, ok)
    \/ \E ok \in BOOLEAN : RemoveContainer(LoopThread, RunProject, ok)
    \/ GetContainerId(LoopThread, RunProject)
    \/ \E ok \in BOOLEAN : ExecCommand(LoopThread, RunProject, ok, 0, << >>)
    \/ lpc[LoopThread] = "idle" /\ ExecCall(LoopThread, RunProject)
    \/ Exec(LoopThread)
    \/ \E r \in Runs : WorkerRefused(r)
    \/ ProgressCheck(RunProject)
    \/ Progress
    \/ \E c \in Cids : ExternalRemove(c)

SpecFrame == Init /\ [][NextFrame]_vars

\* ---------------------------------------------------------- SpecIsolation
\* the project each client thread runs executions for
ProjectOf(t) == IF t = LoopThread THEN "p1" ELSE "p2"

\* what the process of a project writes: "B" in p1's container, ":" in p2's
ChunkOf(p) == IF p = "p1" THEN <<"B">> ELSE <<":">>

\* the worker thread of run r for such a process; the runtime answers every
\* call and reports exit code 0
WorkerOwn(r) ==
    \/ WorkerCreate(r, TRUE)
    \/ WorkerStart(r, TRUE)
    \/ WorkerStream(r, ChunkOf(runProj[r]))
    \/ WorkerStreamEnd(r)
    \/ WorkerInspect(r, 0)
    \/ WorkerFinally(r)

\* two client threads that each call exec_claude once, at the same time or
\* one after the other, each for its own project, a third thread polling
\* get_progress for either project, and the worker threads
NextIsolation ==
    \/ \E p \in Projects : EnsureContainer(p, TRUE)
    \/ \E t \in Callers : run[t] = None /\ ExecCall(t, ProjectOf(t))
    \/ \E t \in Callers : Exec(t)
    \/ \E r \in Runs : WorkerOwn(r)
    \/ \E p \in Projects : ProgressCheck(p)
    \/ Progress

SpecIsolation == Init /\ [][NextIsolation]_vars

\* ------------------------------------------------------------------ claims
\* the worker thread of run r has been started and has not ended
WorkerRunning(r) ==
    wpc[r] \in {"create", "start", "stream", "inspect", "except", "finally"}

\* caller t is inside exec_claude with its run allocated
InCall(t) ==
    pc[t] \in {"start", "register", "join", "collect", "delete", "return"}

\* C1: at most one tracked execution per project: never two workers of one
\* project running at once, and the record a call registered stays that
\* call's record until the call deletes it.
C1_AtMostOneTrackedExecution ==
    /\ \A p \in Projects :
         Cardinality({r \in Runs : runProj[r] = p /\ WorkerRunning(r)}) <= 1
    /\ \A t \in Callers :
         pc[t] \in {"join", "collect", "delete"} => executions[proj[t]] = run[t]

\* C2: while a work/review handler waits for its execution, a pending
\* progress request can be taken up by the request layer.
C2_ProgressServedWhileRunWaits ==
    \A req \in pending :
        (/\ req.kind = "progress"
         /\ loop = "run"
         /\ pc[LoopThread] = "join"
         /\ ~done[run[LoopThread]])
        => ENABLED HttpProgress(req)

\* C3: from the start of the worker until it sets the completion signal,
\* get_progress for the project reports running=true.
C3_RunningWhileWorkerRuns ==
    \A r \in Runs :
        (WorkerRunning(r) /\ ~done[r]) => GetProgress(runProj[r]).running

\* C4 as stated: whenever a record exists, get_progress reports running=true.
C4_RecordImpliesRunning ==
    \A p \in Projects : executions[p] # None => GetProgress(p).running

\* C4 amended: while a record exists, get_progress reports running=true
\* exactly as long as the record's completion signal is not set; a call that
\* returned running=false for a record saw its completion signal set.
C4_RunningUntilDone ==
    /\ \A p \in Projects :
         executions[p] # None =>
             (GetProgress(p).running <=> ~done[executions[p]])
    /\ (pres.kind = "result" /\ pres.run # None /\ ~pres.info.running)
           => done[pres.run]

\* C4 witness: a get_progress call returned running=false for a record that
\* is still registered (the worker is done, the caller has not cleaned up).
C4_PolledBetweenDoneAndCleanup ==
    /\ pres.kind = "result"
    /\ pres.run # None
    /\ executions[pres.project] = pres.run
    /\ ~pres.info.running
    /\ \E t \in Callers : run[t] = pres.run /\ pc[t] \in {"join", "collect", "delete"}

\* C5: a worker that raised while creating, starting or streaming the exec
\* makes exec_claude return exit code 1 and state failed, with the error text
\* appended to what was streamed.
C5_WorkerErrorGivesFailed ==
    \A t \in Callers :
        (ret[t].kind = "result" /\ ret[t].raised \in {"create", "start", "stream"})
        => /\ ret[t].exit_code = 1
           /\ ret[t].state = "failed"
           /\ ret[t].output = ret[t].emitted \o ErrorText

\* the classification C6 states
C6_Table(exit_code, output) ==
    CASE exit_code = 0 -> "completed"
      [] exit_code = 1 -> IF Contains(output, BlockedMarker) THEN "blocked" ELSE "failed"
      [] exit_code = 130 -> "cancelled"
      [] OTHER -> "failed"

C6_Texts == UNION {[1 .. n -> {"B", ":", "E"}] : n \in 0 .. 2}

\* _determine_state agrees with the table on every exit code and text tried
C6_TableAgrees ==
    \A code \in ExitCodes \cup {3, 127}, text \in C6_Texts :
        DetermineState(code, text) = C6_Table(code, text)

\* C6: _determine_state is the stated total function of (exit code, output),
\* and the state exec_claude returns is that function of the exit_code and
\* output it returns.
C6_StateClassification ==
    /\ C6_TableAgrees
    /\ \A t \in Callers :
         ret[t].kind = "result" =>
             ret[t].state = C6_Table(ret[t].exit_code, ret[t].output)

\* C6 witness: exec_claude returned failed for output holding the marker,
\* because the exit code was not 1.
C6_MarkerWithOtherExitCode ==
    \E t \in Callers :
        /\ ret[t].kind = "result"
        /\ ret[t].exit_code \in {2, 130}
        /\ Contains(ret[t].output, BlockedMarker)
        /\ ret[t].state # "blocked"

\* C7: a call that got past the no-container check ends by returning, with
\* its buffer deleted, and right after it get_progress for the project is the
\* idle ProgressInfo.
C7_CleanAfterCall ==
    [][\A t \in Callers :
          (InCall(t) /\ pc'[t] = "idle")
          => /\ ret'[t].kind = "result"
             /\ ~fileExists'[run[t]]
             /\ GetProgress(proj[t])' = NoExecution]_vars

\* every output get_progress returned for a run is a prefix of that run's
\* buffer and of the output exec_claude returned for it
C8_PrefixOfFinal ==
    (pres.kind = "result" /\ pres.run # None) =>
        \A t \in Callers :
            /\ (InCall(t) /\ run[t] = pres.run)
                   => IsPrefix(pres.info.output, ReadText(content[pres.run]))
            /\ (ret[t].kind = "result" /\ ret[t].run = pres.run)
                   => IsPrefix(pres.info.output, ret[t].output)

\* C8 as stated: within one execution every get_progress output is a prefix
\* of the final output and each is a prefix of the next one.
C8_OutputsNonDecreasing ==
    [][/\ C8_PrefixOfFinal'
       /\ (ProgressReturn /\ pres.kind = "result" /\ pres.run = prec)
              => IsPrefix(pres.info.output, pres'.info.output)]_vars

\* C8 amended: within one execution every get_progress output is a prefix of
\* the final output, and each is a prefix of the next one unless the later
\* call found the buffer file already unlinked by the caller's cleanup, in
\* which case it returns the empty output.
C8_OutputsNonDecreasingUntilUnlink ==
    [][/\ C8_PrefixOfFinal'
       /\ (ProgressReturn /\ pres.kind = "result" /\ pres.run = prec)
              => \/ IsPrefix(pres.info.output, pres'.info.output)
                 \/ (pres'.info.output = << >> /\ ~fileExists[prec])]_vars

\* C8 witness: get_progress returned a non-empty proper prefix of the output
\* exec_claude finally returned for the same run.
C8_PartialOutputSeen ==
    \E t \in Callers :
        /\ ret[t].kind = "result"
        /\ pres.kind = "result"
        /\ pres.run = ret[t].run
        /\ pres.info.output # << >>
        /\ pres.info.output # ret[t].output
        /\ IsPrefix(pres.info.output, ret[t].output)

\* C9: get_progress never raises.
C9_ProgressNeverRaises == pres.kind # "raised"

\* C10: a step of get_progress leaves the record table, the records, the
\* buffers and the container cache as they are.
C10_ProgressReadOnly ==
    [][pollVars' # pollVars => UNCHANGED <<svcVars, runVars>>]_vars

\* C10 witness: get_progress returned the non-empty output of a finished
\* execution whose record is still registered.
C10_PolledFinishedRecord ==
    /\ pres.kind = "result"
    /\ pres.run # None
    /\ executions[pres.project] = pres.run
    /\ done[pres.run]
    /\ pres.info.output # << >>
    /\ containers[pres.project] # None

\* C11: a get_progress call for a project without a record returns exactly
\* running=false, output "", recent "", bytes 0, whatever ran before; a result
\* that was not read from a record carries nothing of a finished run.
C11_IdleWithoutRecord ==
    [][\A p \in Projects :
          (ProgressCheck(p) /\ executions[p] = None)
          => /\ ppc' = "idle"
             /\ pres'.kind = "result"
             /\ pres'.project = p
             /\ pres'.info = [running |-> FALSE, output |-> << >>,
                              recent |-> << >>, bytes |-> 0]]_vars

\* C11 witness: get_progress returned the idle ProgressInfo for a project
\* whose earlier execution it had polled and which produced output.
C11_IdleAfterFinishedRun ==
    /\ ppc = "idle"
    /\ pres.kind = "result"
    /\ pres.run = None
    /\ pres.project = RunProject
    /\ pres.info.bytes = 0
    /\ executions[RunProject] = None
    /\ prec # None
    /\ \E t \in Callers :
          ret[t].kind = "result" /\ ret[t].run = prec /\ ret[t].output # << >>

\* the newline-delimited lines of a text: a final newline ends the last line
TextLines(text) ==
    IF text = << >> THEN << >>
    ELSE IF text[Len(text)] = "\n" THEN SplitLines(SubSeq(text, 1, Len(text) - 1))
    ELSE SplitLines(text)

\* the last n elements of a sequence
LastOf(seq, n) == SubSeq(seq, Len(seq) - n + 1, Len(seq))

\* C12: for a record, recent is the last 10 lines of the output read when the
\* output has more than 10 lines and the entire output otherwise; recent
\* never has more than 10 lines.
C12_RecentIsLastTenLines ==
    (pres.kind = "result" /\ pres.run # None) =>
        LET output == pres.info.output
            lines == TextLines(output)
        IN  /\ Len(lines) > 10
                  => pres.info.recent = JoinLines(LastOf(lines, 10))
            /\ Len(lines) <= 10 => pres.info.recent = output
            /\ Len(TextLines(pres.info.recent)) <= 10

\* number of bytes of the UTF-8 encoding of a character / of a text
Utf8Width(ch) == IF ch = "U" THEN 2 ELSE 1

RECURSIVE Utf8Len(_)
Utf8Len(text) ==
    IF text = << >> THEN 0 ELSE Utf8Width(Head(text)) + Utf8Len(Tail(text))

\* C13: for a record, bytes is the byte length of the output read, and it is
\* 0 exactly when that output is empty.
C13_BytesIsByteLength ==
    (pres.kind = "result" /\ pres.run # None) =>
        /\ pres.info.bytes = Utf8Len(pres.info.output)
        /\ (pres.info.bytes = 0 <=> pres.info.output = << >>)

\* C14: an ensure_container call that finds the cached container running
\* returns the cached id, leaves the cache and the runtime as they are and
\* creates nothing; every returned id that was not created by the call was
\* checked with one reload.
C14_EnsureIdempotentWhileRunning ==
    [][\A t \in Callers :
          /\ (EnsureReload(t) /\ dockerStatus[lcon[t]] = "running")
                => /\ lpc'[t] = "idle"
                   /\ lret'[t].kind = "value"
                   /\ lret'[t].id = containers[lret[t].project]
                   /\ lret'[t].creates = 0
                   /\ UNCHANGED <<containers, dockerStatus, dockerName, nextCid>>
          /\ (lpc[t] # "idle" /\ lpc'[t] = "idle" /\ lret'[t].kind = "value")
                => lret'[t].creates + lret'[t].reloads >= 1]_vars

\* C14 witness: a call returned the id of the container an earlier call had
\* created, after one reload and without creating anything.
C14_SecondEnsureReturnedCached ==
    \E t \in Callers :
        /\ lpc[t] = "idle"
        /\ lret[t].op = "ensure"
        /\ lret[t].kind = "value"
        /\ lret[t].creates = 0
        /\ lret[t].reloads = 1
        /\ containers[lret[t].project] = lret[t].id
        /\ nextCid = 2

\* C15: an ensure_container call that found the cached handle not running or
\* vanished creates one new environment (the runtime being available),
\* returns its id and leaves it in the cache.
C15_StaleHandleReplaced ==
    [][\A t \in Callers :
          /\ (EnsureCreate(t, TRUE) /\ lret[t].reloads = 1 /\ nextCid <= MaxContainers)
                => /\ lpc'[t] = "cache"
                   /\ lret'[t].creates = 1
                   /\ lcon'[t] = nextCid
                   /\ dockerStatus'[nextCid] = "running"
          /\ (EnsureCache(t) /\ lret[t].reloads = 1)
                => /\ lret'[t].kind = "value"
                   /\ lret'[t].id = lcon[t]
                   /\ lret'[t].creates = 1
                   /\ containers'[lret[t].project] = lcon[t]]_vars

\* threads t and u are inside ensure_container calls for the same project
Racing(t, u) ==
    /\ t # u
    /\ lpc[t] # "idle"
    /\ lpc[u] # "idle"
    /\ lret[t].project = lret[u].project

\* C16: of concurrent ensure_container calls for one project without a live
\* cached handle, at most one creates an environment and every call returns
\* the handle left in the cache (the runtime being available); calls for
\* different projects leave each other's cache entry alone.
C16_ConcurrentEnsureOneHandle ==
    [][\A t, u \in Callers :
          /\ (Racing(t, u) /\ lpc'[t] = "idle" /\ nextCid <= MaxContainers)
                => /\ lret'[t].kind = "value"
                   /\ containers'[lret[t].project] = lret'[t].id
                   /\ lret'[t].creates + lret[u].creates <= 1
          /\ (lpc[t] # "idle" /\ lpc'[t] # lpc[t])
                => \A p \in Projects \ {lret[t].project} :
                       containers'[p] = containers[p]]_vars

\* C17: ensure_container with an empty project_path raises ValueError and
\* does nothing else: no reload, no creation, cache and runtime unchanged,
\* with or without a cached handle.
C17_EmptyPathRaisesFirst ==
    [][\A t \in Callers, p \in Projects :
          EnsureCall(t, p, "")
          => /\ lpc'[t] = "idle"
             /\ lret'[t].kind = "raised"
             /\ lret'[t].error = "ValueError"
             /\ lret'[t].reloads = 0
             /\ lret'[t].creates = 0
             /\ UNCHANGED svcVars]_vars

\* C17 witness: the call raised ValueError for a project whose handle is
\* cached and running.
C17_EmptyPathWithCachedHandle ==
    \E t \in Callers :
        /\ lret[t].op = "ensure"
        /\ lret[t].kind = "raised"
        /\ lret[t].error = "ValueError"
        /\ CachedRunning(lret[t].project)

\* the last lifecycle call of t was remove_container(p) and returned True
RemovedTrue(t, p) ==
    /\ lpc[t] = "idle"
    /\ lret[t].op = "remove"
    /\ lret[t].project = p
    /\ lret[t].kind = "value"
    /\ lret[t].flag

\* C18: a remove_container call that returns True invoked the forced remove
\* once and evicted the cache entry; after it get_container_id returns None,
\* exec_claude and exec_command raise the no-container error, a second
\* remove_container returns False, and the next ensure_container creates a
\* new environment without a reload.
C18_RemoveEvicts ==
    [][\A t \in Callers, p \in Projects :
          /\ RemovedTrue(t, p)'
                => /\ containers'[p] = None
                   /\ lret'[t].removes = 1
          /\ RemovedTrue(t, p)
                => /\ GetContainerId(t, p) => lret'[t].id = None
                   /\ \A ok \in BOOLEAN :
                        ExecCommand(t, p, ok, 0, << >>)
                            => (lret'[t].kind = "raised" /\ lret'[t].error = "KeyError")
                   /\ (ExecCheck(t) /\ proj[t] = p)
                        => (ret'[t].kind = "raised" /\ ret'[t].at = "check")
                   /\ \A ok \in BOOLEAN :
                        RemoveContainer(t, p, ok)
                            => (~lret'[t].flag /\ lret'[t].removes = 0)
                   /\ EnsureCall(t, p, "/w") => lpc'[t] = "create"
          /\ (/\ EnsureCreate(t, TRUE)
              /\ lret[t].project = p
              /\ lret[t].reloads = 0
              /\ nextCid <= MaxContainers)
                => /\ lpc'[t] = "cache"
                   /\ lret'[t].creates = 1
                   /\ dockerStatus'[nextCid] = "running"]_vars

\* C18 witness: after remove_container returned True for a project whose
\* container had been created by ensure_container, exec_claude has been
\* called for the project and is at its no-container check.
C18_ExecAfterRemove ==
    \E t \in Callers :
        /\ RemovedTrue(t, lret[t].project)
        /\ pc[t] = "check"
        /\ proj[t] = lret[t].project
        /\ containers[proj[t]] = None
        /\ \E c \in Cids : dockerName[c] = proj[t] /\ dockerStatus[c] = "removed"

\* C19: stop_container and remove_container never raise; without a cached
\* handle they return False and invoke nothing; when the external operation
\* fails they return False and keep the cache entry; stop_container never
\* changes the cache.
C19_StopRemoveReturnFalse ==
    [][\A t \in Callers, p \in Projects, ok \in BOOLEAN :
          /\ StopContainer(t, p, ok)
                => /\ lret'[t].kind = "value"
                   /\ containers' = containers
                   /\ containers[p] = None
                        => (~lret'[t].flag /\ lret'[t].stops = 0
                            /\ dockerStatus' = dockerStatus)
                   /\ (containers[p] # None /\ RuntimeRaises(containers[p], ok))
                        => (~lret'[t].flag /\ dockerStatus' = dockerStatus)
          /\ RemoveContainer(t, p, ok)
                => /\ lret'[t].kind = "value"
                   /\ containers[p] = None
                        => (~lret'[t].flag /\ lret'[t].removes = 0
                            /\ UNCHANGED <<containers, dockerStatus>>)
                   /\ (containers[p] # None /\ RuntimeRaises(containers[p], ok))
                        => (~lret'[t].flag /\ UNCHANGED <<containers, dockerStatus>>)]_vars

\* C19 witness: stop_container returned False because the external stop
\* failed, and the handle is still cached.
C19_StopFailedKeepsEntry ==
    \E t \in Callers :
        /\ lret[t].op = "stop"
        /\ lret[t].kind = "value"
        /\ ~lret[t].flag
        /\ lret[t].stops = 1
        /\ containers[lret[t].project] # None

\* C20: exec_claude without a cached handle raises the no-container error at
\* once: no file, no worker, no record, and get_progress stays idle.
C20_NoContainerNoSideEffects ==
    [][\A t \in Callers :
          (ExecCheck(t) /\ containers[proj[t]] = None)
          => /\ pc'[t] = "idle"
             /\ ret'[t].kind = "raised"
             /\ ret'[t].error = "KeyError"
             /\ UNCHANGED <<svcVars, runVars>>
             /\ GetProgress(proj[t])' =
                    [running |-> FALSE, output |-> << >>,
                     recent |-> << >>, bytes |-> 0]]_vars

\* C20 witness: exec_claude raised the no-container error and nothing was
\* allocated, started or registered.
C20_RaisedWithoutContainer ==
    \E t \in Callers :
        /\ ret[t].kind = "raised"
        /\ ret[t].at = "check"
        /\ containers[proj[t]] = None
        /\ nextRun = 1
        /\ \A r \in Runs : ~fileExists[r] /\ wpc[r] = "unborn"
        /\ pres.kind = "result" /\ pres.project = proj[t] /\ pres.run = None

\* C21: exec_command returns the exit code and the decoded output of the
\* command as a value for every exit code, zero or not; without a cached
\* handle it raises the no-container error; it leaves the Execution Records,
\* the buffers and the runs as they are, so get_progress gives the same
\* result after it as before it, also while an execution is in flight.
C21_ExecCommandReturnsValue ==
    [][\A t \in Callers, p \in Projects, ok \in BOOLEAN,
          code \in ExitCodes, raw \in CommandOutputs :
          ExecCommand(t, p, ok, code, raw)
            => /\ (CachedRunning(p) /\ ok)
                    => /\ lret'[t].kind = "value"
                       /\ lret'[t].exit_code = code
                       /\ lret'[t].output = Decode(raw)
               /\ containers[p] = None
                    => (lret'[t].kind = "raised" /\ lret'[t].error = "KeyError")
               /\ UNCHANGED <<executions, nextRun, runProj, runVars>>
               /\ \A q \in Projects : GetProgress(q)' = GetProgress(q)]_vars

\* C21 witness: exec_command returned a non-zero exit code as a value for the
\* project whose tracked execution is in flight with output in its buffer.
C21_NonZeroExitDuringRun ==
    /\ lret[OtherThread].op = "exec_command"
    /\ lret[OtherThread].kind = "value"
    /\ lret[OtherThread].exit_code = 130
    /\ lret[OtherThread].output = <<"U">>
    /\ executions[lret[OtherThread].project] # None
    /\ GetProgress(lret[OtherThread].project).running
    /\ GetProgress(lret[OtherThread].project).bytes > 0

\* C22: exec_claude never returns before its worker has set the completion
\* signal, and the output it returns is the in-order concatenation of every
\* chunk the process emitted, followed by the error text when the worker
\* raised.
C22_OutputIsEveryChunk ==
    /\ \A t \in Callers :
          pc[t] \in {"collect", "delete", "return"} => done[run[t]]
    /\ \A t \in Callers :
          ret[t].kind = "result"
            => ret[t].output =
                 Decode(ret[t].emitted) \o
                    (IF ret[t].raised = "nowhere" THEN << >> ELSE ErrorText)

\* the runtime has a running container for project p
RunningContainerExists(p) ==
    \E c \in Cids : dockerName[c] = p /\ dockerStatus[c] = "running"

\* C23: the Attach request answers 200, with the id of the running container,
\* only when the project exists and a running container exists for it; it
\* answers 404 otherwise, also when a handle is cached but its container has
\* been stopped or has vanished.
C23_AttachOnlyWhenRunning ==
    [][\A req \in AttachRequests :
          HttpAttach(req)
            => /\ response'.status \in {200, 404}
               /\ response'.status = 200
                    <=> (ProjectFound(req.project) /\ RunningContainerExists(req.project))
               /\ response'.status = 200
                    => dockerStatus[response'.container_id] = "running"]_vars

\* C24: the Run-task and Review handlers run project lookup, tracker check,
\* ensure_container and exec_claude in that order and stop at the first
\* failure: an unknown project gives 404 and a Run-task for a project without
\* tracker gives 400, both with the cache and the runtime untouched; a failing
\* ensure_container gives 500 without exec_claude being entered; exec_claude
\* is entered only for a found project that passed the tracker check and has
\* a running container.
C24_StagesInOrder ==
    [][\A req \in RunRequests, ok \in BOOLEAN :
          HttpRun(req, ok)
            => /\ ~ProjectFound(req.project)
                    => /\ response'.status = 404
                       /\ UNCHANGED <<svcVars, callVars>>
               /\ (ProjectFound(req.project) /\ req.kind = "work"
                                             /\ ~HasBeads(req.project))
                    => /\ response'.status = 400
                       /\ UNCHANGED <<svcVars, callVars>>
               /\ (RunPrecheck(req) = 0 /\ EnsureRaises(req.project, ok))
                    => /\ response'.status = 500
                       /\ UNCHANGED <<callVars, executions, nextRun>>
               /\ pc'[LoopThread] # pc[LoopThread]
                    => /\ pc'[LoopThread] = "check"
                       /\ ProjectFound(req.project)
                       /\ req.kind = "work" => HasBeads(req.project)
                       /\ CachedRunning(req.project)'
                       /\ response' = response]_vars

\* C24 witness: a Run-task request for a project without tracker was answered
\* 400 while nothing is cached for the project and the runtime has never
\* been asked for a container.
C24_RefusedBeforeEnsure ==
    /\ response # NoResult
    /\ response.status = 400
    /\ response.request.kind = "work"
    /\ containers[response.request.project] = None
    /\ nextCid = 1

\* the answer is an HTTP error
HttpError(r) == r.status >= 400

\* C25: when exec_claude returns, the Run-task and Review handlers answer 200
\* with the state and exit code of the result, whatever the state; they
\* answer an HTTP error only for an unknown project, a missing tracker, a
\* failed ensure_container or an exec_claude that raised.
C25_RunOutcomeIs200 ==
    [][/\ HttpRunRespond
            => /\ ret[LoopThread].kind = "result"
                    => /\ response'.status = 200
                       /\ response'.state = ret[LoopThread].state
                       /\ response'.exit_code = ret[LoopThread].exit_code
               /\ HttpError(response') => ret[LoopThread].kind = "raised"
       /\ \A req \in RunRequests, ok \in BOOLEAN :
            (HttpRun(req, ok) /\ response' # response)
                => /\ HttpError(response')
                   /\ \/ ~ProjectFound(req.project)
                      \/ req.kind = "work" /\ ~HasBeads(req.project)
                      \/ EnsureRaises(req.project, ok)]_vars

\* C25 witness: a run whose worker raised, turned into exit code 1, was
\* answered 200 with state failed.
C25_WorkerErrorAnswered200 ==
    /\ response # NoResult
    /\ response.status = 200
    /\ response.state = "failed"
    /\ response.exit_code = 1
    /\ ret[LoopThread].kind = "result"
    /\ ret[LoopThread].raised = "stream"

\* the response to a Push+PR request has just been produced
PushAnswered ==
    /\ response' # response
    /\ response' # NoResult
    /\ response'.request.kind = "push"

\* call i of the response returned a CommandResult with exit code 0
CallSucceeded(r, i) ==
    r.calls[i].kind = "value" /\ r.calls[i].exit_code = 0

\* C26: the Push+PR handler runs branch lookup, push and PR creation in that
\* order through exec_command and stops at the first command that exits
\* non-zero (or cannot be run): every command before the last one run exited
\* 0; a last command with a non-zero exit gives 500 with the command's output
\* in the detail; 200 is answered only after three commands that exited 0;
\* and the handler starts no tracked execution.
C26_PushStopsAtFirstFailure ==
    [][PushAnswered =>
         LET r == response'
             n == Len(r.calls)
         IN  /\ n <= 3
             /\ r.status \in {200, 404, 500}
             /\ n >= 1 => r.calls[1].command = BranchCmd
             /\ n >= 2 => SubSeq(r.calls[2].command, 1, 3) = <<"git", " ", "push">>
             /\ n >= 3 => SubSeq(r.calls[3].command, 1, 5) = <<"gh", " ", "pr", " ", "create">>
             /\ \A i \in 1 .. (n - 1) : CallSucceeded(r, i)
             /\ r.status = 200 <=> (n = 3 /\ \A i \in 1 .. 3 : CallSucceeded(r, i))
             /\ (n >= 1 /\ r.calls[n].kind = "value" /\ r.calls[n].exit_code # 0)
                    => /\ r.status = 500
                       /\ Tail(r.detail) = r.calls[n].output
             /\ UNCHANGED <<executions, nextRun, runProj, runVars, callVars>>]_vars

\* C26 witness: the push exited non-zero after a successful branch lookup;
\* the answer is 500 after two commands, with the output of the push.
C26_PushFailedNoPr ==
    /\ response # NoResult
    /\ response.status = 500
    /\ Len(response.calls) = 2
    /\ response.calls[2].kind = "value"
    /\ response.calls[2].exit_code = 1
    /\ response.detail = <<"Git push failed: ">> \o response.calls[2].output

\* one command of the given words, every quote closed
OneCommand(words) == [cmds |-> << words >>, closed |-> TRUE]

\* C27: the branch name and the PR title are embedded in their command lines
\* so that the shell splits the line into one command whose words are the
\* fixed words and the original string as exactly one word.
C27_QuotedStringIsOneWord ==
    response # NoResult =>
        /\ Len(response.calls) >= 2
              => ShellLex(response.calls[2].command) =
                   OneCommand(<< <<"git">>, <<"push">>, <<"-u">>, <<"origin">>,
                                 Strip(response.calls[1].output) >>)
        /\ (Len(response.calls) = 3 /\ response.title # << >>)
              => ShellLex(response.calls[3].command) =
                   OneCommand(<< <<"gh">>, <<"pr">>, <<"create">>, <<"--title">>,
                                 response.title, <<"--fill">> >>)

\* C27 witness: a PR was created with a title made of a double quote and a
\* semicolon.
C27_TitleWithQuoteAndSemicolon ==
    /\ response # NoResult
    /\ response.status = 200
    /\ response.title = <<"\"", ";">>
    /\ Len(response.calls) = 3

\* the line contains both github.com and /pull/
HasBoth(line) ==
    \A ch \in {"g", "p"} : \E i \in DOMAIN line : line[i] = ch

\* C28: in a 200 response of Push+PR, pr_url is the first line of the output
\* of the PR creation that contains both github.com and /pull/, trimmed, and
\* is empty when no line contains both.
C28_PrUrlIsFirstMatchingLine ==
    (response # NoResult /\ response.status = 200)
        => LET lines == SplitLines(response.pr_output)
               matching == {i \in DOMAIN lines : HasBoth(lines[i])}
           IN  IF matching = {} THEN response.pr_url = << >>
               ELSE \E i \in matching :
                        /\ \A j \in matching : i <= j
                        /\ response.pr_url = Strip(lines[i])

\* C28 witness: the output of the PR creation has two different lines with
\* both texts; the response is 200 with the first of them.
C28_TwoMatchingLines ==
    /\ response # NoResult
    /\ response.status = 200
    /\ response.pr_output = <<"g", "p", "\n", "p", "g">>
    /\ response.pr_url = <<"g", "p">>

\* the path is below the workspace root
IsDescendant(path) ==
    Len(path) > Len(WorkspaceRoot) /\ SubSeq(path, 1, Len(WorkspaceRoot)) = WorkspaceRoot

AgentBinary(exists) ==
    IF "/usr/local/bin/claude" \in exists THEN {"/usr/local/bin/claude"}
    ELSE IF "~/.local/bin/claude" \in exists THEN {"~/.local/bin/claude"}
    ELSE {}

\* C30: the mount set is a function of the host paths that exist: the
\* project path read-write at /workspace; the agent binary read-only at
\* /usr/local/bin/claude, taken from /usr/local/bin/claude or else from
\* ~/.local/bin/claude, never both; ~/.claude (rw), ~/.gitconfig (ro) and
\* ~/.ssh (ro) exactly when they exist.
C30_MountsFollowHostPaths ==
    \A t \in Callers :
        (lret[t].op = "mounts" /\ lret[t].project # "~/.claude")
            => lret[t].volumes =
                 {[host |-> lret[t].project, bind |-> "/workspace", mode |-> "rw"]}
                 \cup {[host |-> h, bind |-> "/usr/local/bin/claude", mode |-> "ro"] :
                          h \in AgentBinary(lret[t].host)}
                 \cup {[host |-> h, bind |-> "/home/claude/.claude", mode |-> "rw"] :
                          h \in {"~/.claude"} \cap lret[t].host}
                 \cup {[host |-> h, bind |-> "/home/claude/.gitconfig", mode |-> "ro"] :
                          h \in {"~/.gitconfig"} \cap lret[t].host}
                 \cup {[host |-> h, bind |-> "/home/claude/.ssh", mode |-> "ro"] :
                          h \in {"~/.ssh"} \cap lret[t].host}

\* C31: whenever the completion signal of an execution is set, its result
\* slot holds an exit code, so that exec_claude reads a set exit code after
\* the worker has finished.
C31_DoneImpliesExitCode ==
    \A t \in Callers :
        (InCall(t) /\ done[run[t]]) => exitCode[run[t]] # NoExit

\* C32: once the output stream of an execution has ended or raised, the
\* worker sets the completion signal whatever happens afterwards, and the
\* exec_claude call waiting for it finishes.
C32_CompletionAlwaysSignalled ==
    \A r \in Runs :
        (wpc[r] \in {"inspect", "except"})
            ~> (done[r] /\ \A t \in Callers : run[t] = r => pc[t] = "idle")

\* C32 witness: a call has finished although inspecting the exec raised and
\* the error handler itself raised on the closed file.
C32_FinishedAfterHandlerRaised ==
    /\ pc[LoopThread] = "idle"
    /\ ret[LoopThread].kind = "result"
    /\ ret[LoopThread].raised = "inspect"
    /\ done[ret[LoopThread].run]

\* C33: when ensure_container found the cached handle stale (vanished or not
\* running) and creating the replacement failed, the call has raised and the
\* cache holds no handle for the project.
C33_StaleEntryDiscarded ==
    \A t \in Callers :
        (/\ lpc[t] = "idle"
         /\ lret[t].op = "ensure"
         /\ lret[t].reloads = 1
         /\ lret[t].kind = "raised"
         /\ lret[t].error = "DockerException")
        => containers[lret[t].project] = None

\* caller t has taken a step of a lifecycle method
LifeStep(t) == lret'[t] # lret[t] \/ lpc'[t] # lpc[t]

\* C34: the container cache is changed only by steps of ensure_container and
\* by a remove_container that returns True, the execution table only by
\* steps of exec_claude; get_container_id returns the cached id, or null
\* when nothing is cached, whatever the state of the container.
C34_MapsChangedOnlyByOwners ==
    [][/\ containers' # containers =>
            \E t \in Callers :
                /\ LifeStep(t)
                /\ \/ lret'[t].op = "ensure"
                   \/ lret'[t].op = "remove" /\ lret'[t].flag
       /\ executions' # executions =>
            \E t \in Callers : pc'[t] # pc[t] /\ pc[t] \in {"register", "delete"}
       /\ \A t \in Callers :
            (LifeStep(t) /\ lret'[t].op = "get_id")
            => /\ lret'[t].kind = "value"
               /\ lret'[t].id = containers[lret'[t].project]
               /\ UNCHANGED <<containers, executions>>]_vars

\* C34 witness: get_container_id returned the id of a cached container that
\* is stopped or has vanished.
C34_IdOfDeadContainerReturned ==
    \E t \in Callers :
        /\ lret[t].op = "get_id"
        /\ lret[t].kind = "value"
        /\ lret[t].id # None
        /\ dockerStatus[lret[t].id] \in {"exited", "removed"}

\* C35: exec_claude returns completed only when the runtime reported exit
\* code 0 for the process (an exit code that could not be obtained does not
\* give completed), and the exit_code it returns is the reported one.
C35_CompletedOnlyOnReportedZero ==
    [][\A t \in Callers :
          (pc[t] = "return" /\ pc'[t] = "idle")
          => /\ ret'[t].state = "completed" => exitCode[run[t]] = 0
             /\ exitCode[run[t]] # NoExit => ret'[t].exit_code = exitCode[run[t]]]_vars

\* C36: with two exec_claude calls for one project in flight, the cleanup of
\* a call deletes the record that call registered, the call returns the
\* result of its own run without raising, and get_progress still reports
\* running=true for the other call's run while that run has not completed.
C36_OverlapCleansOwnRecord ==
    [][\A t \in Callers :
          /\ (pc[t] = "delete" /\ pc'[t] # "delete")
             => /\ executions[proj[t]] = run[t]
                /\ \A u \in Callers \ {t} :
                     (/\ proj[u] = proj[t]
                      /\ pc[u] = "join"
                      /\ ~done[run[u]]
                      /\ GetProgress(proj[u]).running)
                     => GetProgress(proj[u])'.running
          /\ (InCall(t) /\ pc'[t] = "idle")
             => /\ ret'[t].kind = "result"
                /\ ret'[t].run = run[t]]_vars

\* the characters only the process of project p writes
OwnChars(p) == {ChunkOf(p)[1]}

\* what project p has of tracked executions is the same before and after the
\* step: its record, the buffers and signals of its runs, its get_progress
SameFor(p) ==
    /\ executions'[p] = executions[p]
    /\ GetProgress(p)' = GetProgress(p)
    /\ \A r \in Runs :
         runProj[r] = p =>
             /\ content'[r] = content[r]
             /\ fileExists'[r] = fileExists[r]
             /\ done'[r] = done[r]

\* C37: executions of different projects do not interfere: runs in flight
\* have distinct buffers, a get_progress result for p comes from a run of p
\* and holds only what p's process wrote, and no step of an exec_claude call
\* or worker of another project changes p's record, buffers or get_progress.
C37_ProjectsDoNotInterfere ==
    [][/\ \A t \in Callers, u \in Callers :
            (t # u /\ InCall(t) /\ InCall(u)) => run[t] # run[u]
       /\ (pres'.kind = "result" /\ pres'.run # None)
            => /\ runProj[pres'.run] = pres'.project
               /\ \A i \in DOMAIN pres'.info.output :
                    pres'.info.output[i] \in OwnChars(pres'.project)
       /\ \A p \in Projects :
            /\ \A t \in Callers :
                 (pc'[t] # pc[t] /\ proj'[t] # p) => SameFor(p)
            /\ \A r \in Runs :
                 (wpc'[r] # wpc[r] \/ content'[r] # content[r]) /\ runProj[r] # p
                 => SameFor(p)]_vars

\* C37 witness: the call for p1 has just deleted its record while the run of
\* p2 is registered, has written output and has not completed, and
\* get_progress has reported that output as running.
C37_OneCleansUpWhileOtherRuns ==
    /\ pc[LoopThread] = "return"
    /\ pc[OtherThread] = "join"
    /\ executions["p2"] = run[OtherThread]
    /\ ~done[run[OtherThread]]
    /\ pres.kind = "result"
    /\ pres.project = "p2"
    /\ pres.info.running
    /\ pres.info.output # << >>

\* the environments of project p that exist in the runtime: the containers
\* created under the name claude-dev-{p} and not removed
EnvsOf(p) ==
    {c \in Cids : dockerName[c] = p /\ dockerStatus[c] \in {"running", "exited"}}

ListedAs(id) == {ListProjects[i] : i \in {j \in DOMAIN ListProjects : ListProjects[j].id = id}}

\* C39: get_project returns a Project exactly for the identifiers that
\* list_projects emits (the immediate child directories of the workspace,
\* named by a single path segment), with the same has_beads.
C39_FoundIffListed ==
    (response # NoResult /\ response.request.kind = "project")
        => /\ response.status = 200 <=> ListedAs(response.id) # {}
           /\ response.status = 200 =>
                \A listed \in ListedAs(response.id) :
                    listed.has_beads = response.project.has_beads

=============================================================================
